---- MODULE Spec2Model ----
(***************************************************************************)
(* The read side of the membership ring (pkg/ring/ring.go): the descriptor *)
(* snapshot and its derived views, the watch callback that installs new    *)
(* descriptors, Get, GetReplicationSetForOperation and shuffle sharding.   *)
(*                                                                         *)
(* Conventions.  Instance ids, addresses, zones, tokens and times are      *)
(* small naturals.  Zone 0 is the empty zone name "" (it sorts first, as   *)
(* "" does); address 0 is the empty address of a zero-valued InstanceDesc. *)
(* Go slices are sequences; a 0-based index p of the code is p + 1 here.   *)
(* Go maps are functions whose DOMAIN is the set of keys present.          *)
(***************************************************************************)
EXTENDS Integers, Sequences, FiniteSets, TLC

VARIABLES
  cfg,                   \* Ring.cfg (Config): fixed at construction
  ringDesc,              \* Ring.ringDesc.Ingesters: instance id -> InstanceDesc
  ringTokens,            \* Ring.ringTokens
  ringTokensByZone,      \* Ring.ringTokensByZone
  ringInstanceByToken,   \* Ring.ringInstanceByToken
  ringInstanceIdByAddr,  \* Ring.ringInstanceIdByAddr
  ringZones,             \* Ring.ringZones
  lastTopologyChange,    \* Ring.lastTopologyChange
  shuffledSubringCache,  \* Ring.shuffledSubringCache: subringCacheKey -> subring
  now,                   \* the wall clock read by time.Now()
  kvLastUpdate,          \* KVClient.LastUpdateTime(key)
  shuffleSeed,           \* shardUtil.ShuffleShardSeed(identifier, zone), by zone
  bufHosts,              \* the caller's bufHosts slice, as the last Get left it
  bufDescs,              \* the caller's bufDescs slice, as the last Get left it
  bufZones,              \* the caller's bufZones map, as the last Get left it
  lastCall               \* the last read operation that returned, and its result

vars == <<cfg, ringDesc, ringTokens, ringTokensByZone, ringInstanceByToken,
          ringInstanceIdByAddr, ringZones, lastTopologyChange, shuffledSubringCache,
          now, kvLastUpdate, shuffleSeed, bufHosts, bufDescs, bufZones, lastCall>>

ringVars == <<ringDesc, ringTokens, ringTokensByZone, ringInstanceByToken,
              ringInstanceIdByAddr, ringZones, lastTopologyChange, shuffledSubringCache>>

envVars == <<cfg, now, kvLastUpdate, shuffleSeed>>

bufVars == <<bufHosts, bufDescs, bufZones>>

---------------------------------------------------------------------------
\* Bounds of the model.

\* Instance ids are 1..MaxInstances.
MaxInstances == 4

\* Replication factors tried are 1..MaxRF.
MaxRF == 3

\* Named zones are 1..MaxZone (zone 0 is the empty zone name).
MaxZone == 2

\* Shard sizes tried are 0..MaxShardSize.
MaxShardSize == 3

\* Shuffle-shard seeds tried are 0..MaxSeed.
MaxSeed == 5
MaxTicks == 2
MaxLookback == 2

---------------------------------------------------------------------------
\* InstanceState, in the order of the enumeration.

ACTIVE == 0

LEAVING == 1

PENDING == 2

JOINING == 3

LEFT == 4

READONLY == 5

InstanceStates == {ACTIVE, LEAVING, PENDING, JOINING, LEFT, READONLY}

\* Error sentinels.
ErrNone == "nil"

ErrEmptyRing == "empty ring"

ErrInstanceNotFound == "instance not found in the ring"

ErrTooManyUnhealthyInstances == "too many unhealthy instances in the ring"

ErrInconsistentTokensInfo == "inconsistent ring tokens information"

\* The empty zone name.
NoZone == 0

\* cfg.HeartbeatTimeout, in clock units (the flag's default is one minute).
HeartbeatTimeout == 1

\* The clock value at which the model starts: a heartbeat of time 0 is stale then.
StartTime == HeartbeatTimeout + 1

Ids == 1 .. MaxInstances

\* Tokens live on a ring of 2 * MaxInstances positions (2^32 in the code).
TokenSpace == 2 * MaxInstances

Keys == 0 .. (TokenSpace - 1)

---------------------------------------------------------------------------
\* Small helpers for sets, sequences and Go maps.

Min(S) == CHOOSE x \in S : \A y \in S : x <= y

Max(S) == CHOOSE x \in S : \A y \in S : x >= y

Range(s) == {s[i] : i \in 1 .. Len(s)}

RECURSIVE SortSet(_)
SortSet(S) ==
  IF S = {} THEN <<>>
  ELSE LET m == Min(S) IN <<m>> \o SortSet(S \ {m})

\* A Go map read: the zero value when the key is absent.
MapGet(m, k) == IF k \in DOMAIN m THEN m[k] ELSE 0

\* A Go map write m[k] = v.
MapPut(m, k, v) == [x \in (DOMAIN m) \cup {k} |-> IF x = k THEN v ELSE m[x]]

EmptyMap == [x \in {} |-> 0]

RECURSIVE Pow2(_)
Pow2(n) == IF n = 0 THEN 1 ELSE 2 * Pow2(n - 1)

RECURSIVE SumPow2(_)
SumPow2(S) ==
  IF S = {} THEN 0
  ELSE LET s == Min(S) IN Pow2(s) + SumPow2(S \ {s})

---------------------------------------------------------------------------
\* Operation: a 32-bit bitmap.

\* op & (1 << n) > 0
BitSet(op, n) == (op \div Pow2(n)) % 2 = 1

\* Mutant of NewOp: the extension bits start at bit 5, inside the healthy
\* bits.
NewOpNarrow(healthyStates, extendStates) ==
  SumPow2(healthyStates) + 32 * SumPow2(extendStates)

\* NewOp: bit s for each healthy state, bit 16 + s for each state on which
\* shouldExtendReplicaSet returns true (given here as the set of such states).
NewOp(healthyStates, extendStates) ==
  SumPow2(healthyStates) + 65536 * SumPow2(extendStates)

IsInstanceInStateHealthy(op, s) == BitSet(op, s)

ShouldExtendReplicaSetOnState(op, s) == BitSet(op, 16 + s)

Write == NewOp({ACTIVE}, {s \in InstanceStates : s # ACTIVE})

WriteNoExtend == NewOp({ACTIVE}, {s \in InstanceStates : s = READONLY})

Read ==
  NewOp({ACTIVE, PENDING, LEAVING, JOINING, READONLY},
        {s \in InstanceStates : s # ACTIVE /\ s # LEAVING /\ s # JOINING /\ s # READONLY})

\* allStatesRingOperation = 0x0000ffff
Reporting == 65535

Operations == {Write, WriteNoExtend, Read, Reporting}

---------------------------------------------------------------------------
\* InstanceDesc and Desc.

InstanceDesc(addr, state, zone, tokens, ts, reg) ==
  [Addr |-> addr, State |-> state, Zone |-> zone, Tokens |-> tokens,
   Timestamp |-> ts, RegisteredTimestamp |-> reg]

\* The zero value of InstanceDesc: what a read of a missing map key returns.
ZeroInstance == InstanceDesc(0, ACTIVE, NoZone, <<>>, 0, 0)

EmptyDesc == [i \in {} |-> ZeroInstance]

\* r.ringDesc.Ingesters[id]
Ingester(desc, id) == IF id \in DOMAIN desc THEN desc[id] ELSE ZeroInstance

\* Desc.GetTokens: every instance's tokens, sorted ascending.
GetTokens(desc) == SortSet(UNION {Range(desc[i].Tokens) : i \in DOMAIN desc})

\* Desc.getTokensByZone: zone -> that zone's sorted tokens, for every zone
\* that holds an instance.
getTokensByZone(desc) ==
  [z \in {desc[i].Zone : i \in DOMAIN desc} |->
     SortSet(UNION {Range(desc[i].Tokens) : i \in {j \in DOMAIN desc : desc[j].Zone = z}})]

\* Desc.getTokensInfo: token -> instanceInfo{InstanceID, Zone}.
getTokensInfo(desc) ==
  [t \in UNION {Range(desc[i].Tokens) : i \in DOMAIN desc} |->
     LET i == CHOOSE j \in DOMAIN desc : t \in Range(desc[j].Tokens)
     IN [InstanceID |-> i, Zone |-> desc[i].Zone]]

\* Desc.getInstancesByAddr: address -> instance id.
getInstancesByAddr(desc) ==
  [a \in {desc[i].Addr : i \in DOMAIN desc} |->
     CHOOSE i \in DOMAIN desc : desc[i].Addr = a]

\* getZones: the keys of the tokens-by-zone map, sorted.
getZones(tokensByZone) == SortSet(DOMAIN tokensByZone)

---------------------------------------------------------------------------
\* Token lookup and health.

\* searchToken: the smallest index whose token is greater than key, else the
\* first index.
searchToken(tokens, key) ==
  LET above == {p \in 0 .. (Len(tokens) - 1) : tokens[p + 1] > key}
  IN IF above = {} THEN 0 ELSE Min(above)

\* InstanceDesc.IsHealthy: the state is healthy for op and the heartbeat, or
\* the KV store's last update if later, is no older than the timeout.
IsHealthy(instance, op, timeout, storageLastUpdate, t) ==
  /\ IsInstanceInStateHealthy(op, instance.State)
  /\ t - Max({instance.Timestamp, storageLastUpdate}) <= timeout

\* ReplicationStrategy.Filter of the default strategy: the healthy candidates,
\* in order, and the failures tolerated; an error when fewer than
\* RF/2 + 1 candidates are healthy.
Filter(instances, op, replicationFactor, timeout, zoneAware, storageLastUpdate, t) ==
  LET healthy == SelectSeq(instances, LAMBDA x : IsHealthy(x, op, timeout, storageLastUpdate, t))
      minSuccess == (replicationFactor \div 2) + 1
  IN IF Len(healthy) < minSuccess
     THEN [err |-> ErrTooManyUnhealthyInstances, instances |-> <<>>, maxErrors |-> 0]
     ELSE [err |-> ErrNone, instances |-> healthy, maxErrors |-> Len(instances) - minSuccess]

---------------------------------------------------------------------------
\* A ring object: the parent ring, or a subring built by shuffleShard.

RingObject(c, desc, tokens, tokensByZone, instanceByToken, instanceIdByAddr, zones, topologyChange) ==
  [cfg |-> c, ringDesc |-> desc, ringTokens |-> tokens, ringTokensByZone |-> tokensByZone,
   ringInstanceByToken |-> instanceByToken, ringInstanceIdByAddr |-> instanceIdByAddr,
   ringZones |-> zones, lastTopologyChange |-> topologyChange]

\* The parent ring, as the variables hold it.
ParentRing ==
  RingObject(cfg, ringDesc, ringTokens, ringTokensByZone, ringInstanceByToken,
             ringInstanceIdByAddr, ringZones, lastTopologyChange)

\* The ring whose snapshot is desc, with every view derived from it (what
\* updateRingState installs on a topology change).
RingOf(c, desc, topologyChange) ==
  RingObject(c, desc, GetTokens(desc), getTokensByZone(desc), getTokensInfo(desc),
             getInstancesByAddr(desc), getZones(getTokensByZone(desc)), topologyChange)

---------------------------------------------------------------------------
\* Ring.Get

\* Mutant of resetSlice: the caller's slice is used at its full length.
keepSlice(buf) == buf

\* bufDescs[:0] and bufHosts[:0]: the caller's slice cut to length 0.
resetSlice(buf) == <<>>

\* resetZoneMap(bufZones): the caller's map with every key deleted (a new map
\* when bufZones is nil).
resetZoneMap(zones) == EmptyMap

\* Mutant of hostSelected: the walk forgets which instances it has selected.
hostSelectedNever(distinctHosts, instanceID) == FALSE

\* util.StringsContain(distinctHosts, info.InstanceID)
hostSelected(distinctHosts, instanceID) == instanceID \in Range(distinctHosts)

\* Mutant of zoneQuotaReached: no zone ever reaches its quota.
zoneQuotaNever(c, info, w) == FALSE

\* The zone has reached its quota: maxInstancePerZone, plus one while some
\* zone may still take an extra instance.  Instances without a zone are exempt.
zoneQuotaReached(c, info, w) ==
  /\ c.ZoneAwarenessEnabled
  /\ info.Zone # NoZone
  /\ LET maxNumOfInstance ==
           IF w.zonesWithExtraInstance > 0 THEN w.maxInstancePerZone + 1
           ELSE w.maxInstancePerZone
     IN MapGet(w.numOfInstanceByZone, info.Zone) >= maxNumOfInstance

\* The zone accounting of a selected instance that does not extend the set.
countZone(c, info, w) ==
  IF c.ZoneAwarenessEnabled /\ info.Zone # NoZone
  THEN IF info.Zone \notin DOMAIN w.numOfInstanceByZone
       THEN [w EXCEPT !.numOfInstanceByZone = MapPut(@, info.Zone, 1)]
       ELSE IF w.numOfInstanceByZone[info.Zone] < w.maxInstancePerZone
       THEN [w EXCEPT !.numOfInstanceByZone = MapPut(@, info.Zone, @[info.Zone] + 1)]
       ELSE [w EXCEPT !.numOfInstanceByZone = MapPut(@, info.Zone, @[info.Zone] + 1),
                      !.zonesWithExtraInstance = @ - 1]
  ELSE w

\* Mutant of selectInstance: the replica set is never extended.
selectInstanceNoExtend(r, op, info, w) ==
  countZone(r.cfg, info,
            [w EXCEPT !.distinctHosts = Append(@, info.InstanceID),
                      !.instances = Append(@, Ingester(r.ringDesc, info.InstanceID))])

\* Mutant of selectInstance: an instance that extends the replica set is
\* counted in its zone too.
selectInstanceCounted(r, op, info, w) ==
  LET instance == Ingester(r.ringDesc, info.InstanceID)
      w1 == [w EXCEPT !.distinctHosts = Append(@, info.InstanceID),
                      !.instances = Append(@, instance)]
  IN IF ShouldExtendReplicaSetOnState(op, instance.State)
     THEN countZone(r.cfg, info, [w1 EXCEPT !.replicationFactor = @ + 1])
     ELSE countZone(r.cfg, info, w1)

\* The instance is appended; the replica set is extended when its state asks
\* for it, and the zone is counted only otherwise.
selectInstance(r, op, info, w) ==
  LET instance == Ingester(r.ringDesc, info.InstanceID)
      w1 == [w EXCEPT !.distinctHosts = Append(@, info.InstanceID),
                      !.instances = Append(@, instance)]
  IN IF ShouldExtendReplicaSetOnState(op, instance.State)
     THEN [w1 EXCEPT !.replicationFactor = @ + 1]
     ELSE countZone(r.cfg, info, w1)

\* The loop of Get, from 0-based index i with `iterations` tokens visited.
RECURSIVE getWalk(_, _, _, _, _)
getWalk(r, op, i, iterations, w) ==
  IF ~(Len(w.distinctHosts) < w.replicationFactor /\ iterations < Len(r.ringTokens))
  THEN w
  ELSE LET p == i % Len(r.ringTokens)
           token == r.ringTokens[p + 1]
       IN IF token \notin DOMAIN r.ringInstanceByToken
          THEN [w EXCEPT !.err = ErrInconsistentTokensInfo]
          ELSE LET info == r.ringInstanceByToken[token]
               IN IF hostSelected(w.distinctHosts, info.InstanceID)
                  THEN getWalk(r, op, p + 1, iterations + 1, w)
                  ELSE IF zoneQuotaReached(r.cfg, info, w)
                  THEN getWalk(r, op, p + 1, iterations + 1, w)
                  ELSE getWalk(r, op, p + 1, iterations + 1, selectInstance(r, op, info, w))

\* The walk of Get from the key: its local variables when the loop ends.
getSelect(r, key, op, descs, hosts, zones) ==
  getWalk(r, op, searchToken(r.ringTokens, key), 0,
          [replicationFactor |-> r.cfg.ReplicationFactor,
           instances |-> resetSlice(descs),
           maxInstancePerZone |-> r.cfg.ReplicationFactor \div Len(r.ringZones),
           zonesWithExtraInstance |-> r.cfg.ReplicationFactor % Len(r.ringZones),
           distinctHosts |-> resetSlice(hosts),
           numOfInstanceByZone |-> resetZoneMap(zones),
           err |-> ErrNone])

GetError(e) ==
  [err |-> e, Instances |-> <<>>, MaxErrors |-> 0, selected |-> <<>>,
   hosts |-> <<>>, zones |-> EmptyMap]

\* Ring.Get on ring object r, at clock t with the KV store last updated at
\* storageLastUpdate.  Beside the ReplicationSet (Instances, MaxErrors) the
\* result records what the walk selected and what it left in the buffers.
Get(r, key, op, descs, hosts, zones, storageLastUpdate, t) ==
  IF Len(r.ringTokens) = 0 THEN GetError(ErrEmptyRing)
  ELSE LET w == getSelect(r, key, op, descs, hosts, zones)
       IN IF w.err # ErrNone THEN GetError(w.err)
          ELSE LET f == Filter(w.instances, op, r.cfg.ReplicationFactor, r.cfg.HeartbeatTimeout,
                               r.cfg.ZoneAwarenessEnabled, storageLastUpdate, t)
               IN [err |-> f.err, Instances |-> f.instances, MaxErrors |-> f.maxErrors,
                   selected |-> w.instances, hosts |-> w.distinctHosts,
                   zones |-> w.numOfInstanceByZone]

---------------------------------------------------------------------------
\* The watch callback: Ring.updateRingState

Equal == "Equal"

EqualButStatesAndTimestamps == "EqualButStatesAndTimestamps"

EqualButReadOnly == "EqualButReadOnly"

Different == "Different"

\* Desc.RingCompare: Different when the instances, their addresses, zones,
\* tokens or registration times differ; otherwise EqualButReadOnly when a state
\* changed to or from READONLY, EqualButStatesAndTimestamps when only states
\* or heartbeats changed, Equal when nothing did.
RingCompare(prev, next) ==
  IF \/ DOMAIN prev # DOMAIN next
     \/ \E i \in DOMAIN prev :
          \/ prev[i].Addr # next[i].Addr
          \/ prev[i].Zone # next[i].Zone
          \/ prev[i].Tokens # next[i].Tokens
          \/ prev[i].RegisteredTimestamp # next[i].RegisteredTimestamp
  THEN Different
  ELSE IF \E i \in DOMAIN prev :
            /\ prev[i].State # next[i].State
            /\ (prev[i].State = READONLY \/ next[i].State = READONLY)
  THEN EqualButReadOnly
  ELSE IF prev = next THEN Equal
  ELSE EqualButStatesAndTimestamps

\* Mutant of filterExcludedZones: every instance is kept.
filterExcludedZonesNone(c, desc) == desc

\* The instances of excluded zones are deleted from the incoming descriptor.
filterExcludedZones(c, desc) ==
  [i \in {j \in DOMAIN desc : desc[j].Zone \notin c.ExcludedZones} |-> desc[i]]

\* Mutant of updateRingState: the cache survives an EqualButReadOnly update.
updateRingStateKeepOnReadOnly(newDesc) ==
  LET desc == filterExcludedZones(cfg, newDesc)
      rc == RingCompare(ringDesc, desc)
  IN IF rc = Equal \/ rc = EqualButStatesAndTimestamps \/ rc = EqualButReadOnly
     THEN /\ ringDesc' = desc
          /\ shuffledSubringCache' = shuffledSubringCache
          /\ UNCHANGED <<ringTokens, ringTokensByZone, ringInstanceByToken,
                         ringInstanceIdByAddr, ringZones, lastTopologyChange>>
     ELSE /\ ringDesc' = desc
          /\ ringTokens' = GetTokens(desc)
          /\ ringTokensByZone' = getTokensByZone(desc)
          /\ ringInstanceByToken' = getTokensInfo(desc)
          /\ ringInstanceIdByAddr' = getInstancesByAddr(desc)
          /\ ringZones' = getZones(getTokensByZone(desc))
          /\ lastTopologyChange' = now
          /\ shuffledSubringCache' = EmptyMap

\* Mutant of updateRingState: every update sets lastTopologyChange.
updateRingStateTouch(newDesc) ==
  LET desc == filterExcludedZones(cfg, newDesc)
      rc == RingCompare(ringDesc, desc)
  IN IF rc = Equal \/ rc = EqualButStatesAndTimestamps \/ rc = EqualButReadOnly
     THEN /\ ringDesc' = desc
          /\ shuffledSubringCache' =
               IF rc = EqualButReadOnly THEN EmptyMap ELSE shuffledSubringCache
          /\ lastTopologyChange' = now
          /\ UNCHANGED <<ringTokens, ringTokensByZone, ringInstanceByToken,
                         ringInstanceIdByAddr, ringZones>>
     ELSE /\ ringDesc' = desc
          /\ ringTokens' = GetTokens(desc)
          /\ ringTokensByZone' = getTokensByZone(desc)
          /\ ringInstanceByToken' = getTokensInfo(desc)
          /\ ringInstanceIdByAddr' = getInstancesByAddr(desc)
          /\ ringZones' = getZones(getTokensByZone(desc))
          /\ lastTopologyChange' = now
          /\ shuffledSubringCache' = EmptyMap

\* updateRingState(ringDesc): only the descriptor is replaced when the
\* topology is unchanged (and the cache emptied on EqualButReadOnly);
\* otherwise every view is rebuilt, lastTopologyChange is set to the clock and
\* the cache is emptied.
updateRingState(newDesc) ==
  LET desc == filterExcludedZones(cfg, newDesc)
      rc == RingCompare(ringDesc, desc)
  IN IF rc = Equal \/ rc = EqualButStatesAndTimestamps \/ rc = EqualButReadOnly
     THEN /\ ringDesc' = desc
          /\ shuffledSubringCache' =
               IF rc = EqualButReadOnly THEN EmptyMap ELSE shuffledSubringCache
          /\ UNCHANGED <<ringTokens, ringTokensByZone, ringInstanceByToken,
                         ringInstanceIdByAddr, ringZones, lastTopologyChange>>
     ELSE /\ ringDesc' = desc
          /\ ringTokens' = GetTokens(desc)
          /\ ringTokensByZone' = getTokensByZone(desc)
          /\ ringInstanceByToken' = getTokensInfo(desc)
          /\ ringInstanceIdByAddr' = getInstancesByAddr(desc)
          /\ ringZones' = getZones(getTokensByZone(desc))
          /\ lastTopologyChange' = now
          /\ shuffledSubringCache' = EmptyMap

---------------------------------------------------------------------------
\* Descriptors the KV store delivers.

\* The tokens instance i registers: its own position, and for odd ids a second
\* one half a ring further, so that walks meet an instance twice.
TokensOf(i) == IF i % 2 = 1 THEN <<i - 1, i - 1 + MaxInstances>> ELSE <<i - 1>>

\* desc with instance i removed.
RemoveIngester(desc, i) == [j \in (DOMAIN desc) \ {i} |-> desc[j]]

\* desc with instance i added or replaced.
AddIngester(desc, i, instance) ==
  [j \in (DOMAIN desc) \cup {i} |-> IF j = i THEN instance ELSE desc[j]]

NoCall == [name |-> "none"]

Config(rf, zoneAware, excluded, cacheDisabled) ==
  [ReplicationFactor |-> rf, ZoneAwarenessEnabled |-> zoneAware,
   ExcludedZones |-> excluded, SubringCacheDisabled |-> cacheDisabled,
   HeartbeatTimeout |-> HeartbeatTimeout]

\* The ring as NewWithStoreClientAndStrategy leaves it: an empty descriptor,
\* no view, an empty cache.
InitRing ==
  /\ ringDesc = EmptyDesc
  /\ ringTokens = <<>>
  /\ ringTokensByZone = EmptyMap
  /\ ringInstanceByToken = EmptyMap
  /\ ringInstanceIdByAddr = EmptyMap
  /\ ringZones = <<>>
  /\ lastTopologyChange = 0
  /\ shuffledSubringCache = EmptyMap

InitBuffers ==
  /\ bufHosts = <<>>
  /\ bufDescs = <<>>
  /\ bufZones = EmptyMap

---------------------------------------------------------------------------
\* SpecGet: descriptors of fresh instances in any state of GetStates, each in
\* its home zone or without a zone (no zone is configured when zone-awareness
\* is off), and Get called with nil buffers.

GetStates == {ACTIVE, JOINING, PENDING}

\* The keys looked up: one below the second token of instance 1, so that the
\* walk meets instance 1 twice early, and one above every token, so that the
\* search wraps to the first token.
GetKeys == {MaxInstances - 1, TokenSpace - 1}

\* The zone instance i runs in, when it is configured with one.
HomeZone(i) == ((i - 1) % MaxZone) + 1

GetZones(c, i) == IF c.ZoneAwarenessEnabled THEN {NoZone, HomeZone(i)} ELSE {NoZone}

GetInstances(c, i) ==
  {InstanceDesc(i, s, z, TokensOf(i), StartTime, 0) : s \in GetStates, z \in GetZones(c, i)}

GetInit ==
  /\ cfg \in {Config(rf, za, {}, FALSE) : rf \in 1 .. MaxRF, za \in BOOLEAN}
  /\ InitRing
  /\ InitBuffers
  /\ now = StartTime
  /\ kvLastUpdate = 0
  /\ shuffleSeed = [z \in 0 .. MaxZone |-> 0]
  /\ lastCall = NoCall

\* The watch callback delivers a descriptor with one instance more.
GetJoin ==
  /\ \E i \in Ids \ DOMAIN ringDesc : \E instance \in GetInstances(cfg, i) :
       updateRingState(AddIngester(ringDesc, i, instance))
  /\ lastCall' = NoCall
  /\ UNCHANGED <<envVars, bufVars>>

\* The watch callback delivers a descriptor with one instance less.
GetLeave ==
  /\ \E i \in DOMAIN ringDesc : updateRingState(RemoveIngester(ringDesc, i))
  /\ lastCall' = NoCall
  /\ UNCHANGED <<envVars, bufVars>>

\* The watch callback delivers a descriptor with one instance's state changed.
GetChangeState ==
  /\ \E i \in DOMAIN ringDesc : \E s \in GetStates \ {ringDesc[i].State} :
       updateRingState(AddIngester(ringDesc, i, [ringDesc[i] EXCEPT !.State = s]))
  /\ lastCall' = NoCall
  /\ UNCHANGED <<envVars, bufVars>>

\* What lastCall records of a call of Get.
GetCall(key, op, res) ==
  [name |-> "Get", key |-> key, op |-> op, err |-> res.err, Instances |-> res.Instances,
   MaxErrors |-> res.MaxErrors, selected |-> res.selected]

\* A caller calls Get(key, op, nil, nil, nil).
GetNil ==
  /\ \E key \in GetKeys : \E op \in Operations :
       lastCall' = GetCall(key, op, Get(ParentRing, key, op, <<>>, <<>>, EmptyMap, kvLastUpdate, now))
  /\ UNCHANGED <<ringVars, envVars, bufVars>>

GetNext == GetJoin \/ GetLeave \/ GetChangeState \/ GetNil

SpecGet == GetInit /\ [][GetNext]_vars

---------------------------------------------------------------------------
\* Properties of Get, checked under SpecGet.

\* The instance ids (addresses) of a sequence of InstanceDesc.
IdsOf(instances) == {instances[k].Addr : k \in 1 .. Len(instances)}

\* Get(key, op) on the current descriptor with instance x removed.
GetWithout(x, key, op) ==
  Get(RingOf(cfg, RemoveIngester(ringDesc, x), now), key, op, <<>>, <<>>, EmptyMap,
      kvLastUpdate, now)

\* C1: for every descriptor, key and operation, the id sets Get returns on the
\* descriptor and on the descriptor with one instance removed (the second is
\* the first with one instance added) differ by at most one id each way,
\* whenever both calls return a replication set.
GetConsistency ==
  (lastCall.name = "Get" /\ lastCall.err = ErrNone) =>
    \A x \in DOMAIN ringDesc :
      LET less == GetWithout(x, lastCall.key, lastCall.op)
          a == IdsOf(lastCall.Instances)
          b == IdsOf(less.Instances)
      IN less.err = ErrNone => (Cardinality(a \ b) <= 1 /\ Cardinality(b \ a) <= 1)

\* C2: the instances Get returns, and those its walk selected, have pairwise
\* distinct ids.
GetDistinct ==
  lastCall.name = "Get" =>
    /\ Cardinality(IdsOf(lastCall.Instances)) = Len(lastCall.Instances)
    /\ Cardinality(IdsOf(lastCall.selected)) = Len(lastCall.selected)

\* C2 witness: a walk that started at the second token of instance 1, wrapped
\* around the ring past its first token, and extended the replica set.
GetDistinctWitness ==
  /\ lastCall.name = "Get"
  /\ lastCall.key = MaxInstances - 1
  /\ {1, 2} \subseteq IdsOf(lastCall.Instances)
  /\ Len(lastCall.Instances) > cfg.ReplicationFactor

\* The instances of zone z among those of `instances` that do not extend the
\* replica set for op.
InZoneNotExtending(instances, op, z) ==
  {k \in 1 .. Len(instances) :
     instances[k].Zone = z /\ ~ShouldExtendReplicaSetOnState(op, instances[k].State)}

\* C3 as stated: with zone-awareness and at least RF ring zones, a Get result
\* holds at most one non-extending instance of any zone of the ring.
GetZoneBalanceAllZones ==
  (lastCall.name = "Get" /\ cfg.ZoneAwarenessEnabled
     /\ Len(ringZones) >= cfg.ReplicationFactor) =>
    \A z \in Range(ringZones) :
      Cardinality(InZoneNotExtending(lastCall.Instances, lastCall.op, z)) <= 1

\* C3 amended: the same for every named zone; instances without a zone are
\* exempt.  It holds of the instances the walk selected, so of the result too.
GetZoneBalance ==
  (lastCall.name = "Get" /\ cfg.ZoneAwarenessEnabled
     /\ Len(ringZones) >= cfg.ReplicationFactor) =>
    \A z \in Range(ringZones) \ {NoZone} :
      /\ Cardinality(InZoneNotExtending(lastCall.selected, lastCall.op, z)) <= 1
      /\ Cardinality(InZoneNotExtending(lastCall.Instances, lastCall.op, z)) <= 1

\* C3 witness: the second token of the walk belongs to an instance of the
\* named zone of the first selected instance; the quota of that zone left it
\* out, and the walk went on to select an instance of another zone.
GetZoneBalanceWitness ==
  /\ lastCall.name = "Get"
  /\ cfg.ZoneAwarenessEnabled
  /\ Len(ringZones) >= cfg.ReplicationFactor
  /\ lastCall.err = ErrNone
  /\ Len(lastCall.selected) >= 2
  /\ LET start == searchToken(ringTokens, lastCall.key)
         second == ringInstanceByToken[ringTokens[((start + 1) % Len(ringTokens)) + 1]]
     IN /\ second.InstanceID \notin IdsOf(lastCall.selected)
        /\ second.Zone # NoZone
        /\ second.Zone = lastCall.selected[1].Zone
        /\ ~ShouldExtendReplicaSetOnState(lastCall.op, lastCall.selected[1].State)

\* The case of C4: a Write with RF = 3 whose walk selected exactly one JOINING
\* instance, every other selected instance being ACTIVE (heartbeats are fresh).
WriteWithOneJoining ==
  /\ lastCall.name = "Get"
  /\ lastCall.op = Write
  /\ cfg.ReplicationFactor = 3
  /\ Cardinality({k \in 1 .. Len(lastCall.selected) : lastCall.selected[k].State = JOINING}) = 1
  /\ \A k \in 1 .. Len(lastCall.selected) : lastCall.selected[k].State \in {JOINING, ACTIVE}

RECURSIVE WalkFrom(_, _, _)
WalkFrom(p, n, met) ==
  IF n = 0 THEN met
  ELSE LET id == ringInstanceByToken[ringTokens[(p % Len(ringTokens)) + 1]].InstanceID
       IN WalkFrom(p + 1, n - 1, IF id \in Range(met) THEN met ELSE Append(met, id))

WalkOrder == WalkFrom(searchToken(ringTokens, lastCall.key), Len(ringTokens), <<>>)

\* The place of instance id in the walk.
WalkPlace(id) == CHOOSE q \in 1 .. Len(WalkOrder) : WalkOrder[q] = id

\* The k-th selected instance extended the replica set of a zone-aware Get.
Extended(k) ==
  /\ lastCall.name = "Get"
  /\ cfg.ZoneAwarenessEnabled
  /\ k \in 1 .. Len(lastCall.selected)
  /\ ShouldExtendReplicaSetOnState(lastCall.op, lastCall.selected[k].State)

\* The number of instances of zone z counted in the zone's quota among the
\* first k selected: those that do not extend the replica set.
ZoneCount(k, z) ==
  Cardinality({j \in InZoneNotExtending(lastCall.selected, lastCall.op, z) : j <= k})

\* C27 as stated: when a selected instance extends the replica set, the next
\* instance of the walk is selected, whatever its zone.
GetExtensionNext ==
  \A k \in 1 .. MaxInstances : Extended(k) =>
    LET q == WalkPlace(lastCall.selected[k].Addr)
    IN q < Len(WalkOrder) =>
         /\ k < Len(lastCall.selected)
         /\ lastCall.selected[k + 1].Addr = WalkOrder[q + 1]

\* C27, amended: when a selected instance extends the replica set it is not
\* counted in its zone, and the walk goes on to the next instance whose zone
\* has not reached its quota: every instance passed over in between belongs to
\* a named zone that already counts RF / |zones| instances or more, and the
\* zone of the instance selected next, when it is named, counts no more.
GetExtensionInQuota ==
  \A k \in 1 .. MaxInstances : Extended(k) =>
    LET q == WalkPlace(lastCall.selected[k].Addr)
        next == IF k < Len(lastCall.selected)
                THEN WalkPlace(lastCall.selected[k + 1].Addr) ELSE Len(WalkOrder) + 1
        quota == cfg.ReplicationFactor \div Len(ringZones)
    IN /\ q < next
       /\ \A x \in (q + 1) .. (next - 1) :
            /\ ringDesc[WalkOrder[x]].Zone # NoZone
            /\ ZoneCount(k, ringDesc[WalkOrder[x]].Zone) >= quota
       /\ (k < Len(lastCall.selected) /\ lastCall.selected[k + 1].Zone # NoZone) =>
            ZoneCount(k, lastCall.selected[k + 1].Zone) <= quota

\* C27 witness: the instance that follows an extending one in the walk is
\* passed over, its zone having reached its quota, and a later instance of the
\* extending instance's own zone is selected.
GetExtensionInQuotaWitness ==
  \E k \in 1 .. MaxInstances :
    /\ Extended(k)
    /\ k < Len(lastCall.selected)
    /\ WalkPlace(lastCall.selected[k + 1].Addr) > WalkPlace(lastCall.selected[k].Addr) + 1
    /\ lastCall.selected[k + 1].Zone = lastCall.selected[k].Zone
    /\ lastCall.selected[k].Zone # NoZone

---------------------------------------------------------------------------
\* SpecBuf: a caller that keeps the buffers of Get from one call to the next,
\* across keys, operations and ring updates.

\* Instances are ACTIVE in their home zone (without a zone when zone-awareness
\* is off); instance 2 may be PENDING, which extends the replica set of a Read.
BufInstances(c, i) ==
  {InstanceDesc(i, s, IF c.ZoneAwarenessEnabled THEN HomeZone(i) ELSE NoZone,
                TokensOf(i), StartTime, 0) :
     s \in IF i = 2 THEN {ACTIVE, PENDING} ELSE {ACTIVE}}

BufOperations == {Write, Read}

BufInit == GetInit

BufJoin ==
  /\ \E i \in Ids \ DOMAIN ringDesc : \E instance \in BufInstances(cfg, i) :
       updateRingState(AddIngester(ringDesc, i, instance))
  /\ lastCall' = NoCall
  /\ UNCHANGED <<envVars, bufVars>>

BufLeave ==
  /\ \E i \in DOMAIN ringDesc : updateRingState(RemoveIngester(ringDesc, i))
  /\ lastCall' = NoCall
  /\ UNCHANGED <<envVars, bufVars>>

\* The caller lets go of its buffers: the next call passes nil.
BufDrop ==
  /\ bufHosts # <<>>
  /\ bufHosts' = <<>>
  /\ bufDescs' = <<>>
  /\ bufZones' = EmptyMap
  /\ lastCall' = NoCall
  /\ UNCHANGED <<ringVars, envVars>>

\* A caller calls Get(key, op, bufDescs, bufHosts, bufZones) and keeps the
\* buffers as the walk left them.
GetBuf ==
  /\ \E key \in GetKeys : \E op \in BufOperations :
       LET res == Get(ParentRing, key, op, bufDescs, bufHosts, bufZones, kvLastUpdate, now)
       IN /\ lastCall' = [name |-> "GetBuf", key |-> key, op |-> op, err |-> res.err,
                          Instances |-> res.Instances, MaxErrors |-> res.MaxErrors,
                          selected |-> res.selected, inHosts |-> bufHosts]
          /\ bufHosts' = res.hosts
          /\ bufDescs' = res.selected
          /\ bufZones' = res.zones
  /\ UNCHANGED <<ringVars, envVars>>

BufNext == BufJoin \/ BufLeave \/ BufDrop \/ GetBuf

SpecBuf == BufInit /\ [][BufNext]_vars

\* C5: on a fixed descriptor, KV last-update time and clock, Get with the
\* caller's buffers, whatever an earlier call left in them, returns the same
\* error, the same set of instance ids and the same MaxErrors as Get with nil
\* buffers.
GetStable ==
  lastCall.name = "GetBuf" =>
    LET fresh == Get(ParentRing, lastCall.key, lastCall.op, <<>>, <<>>, EmptyMap,
                     kvLastUpdate, now)
    IN /\ lastCall.err = fresh.err
       /\ IdsOf(lastCall.Instances) = IdsOf(fresh.Instances)
       /\ lastCall.MaxErrors = fresh.MaxErrors

\* C5 witness: a call that returned two or more instances and was given
\* buffers of another length, whose first host is not among those it selected.
GetStableWitness ==
  /\ lastCall.name = "GetBuf"
  /\ lastCall.err = ErrNone
  /\ Len(lastCall.Instances) >= 2
  /\ lastCall.inHosts # <<>>
  /\ Len(lastCall.inHosts) # Len(lastCall.selected)
  /\ lastCall.inHosts[1] \notin IdsOf(lastCall.selected)

---------------------------------------------------------------------------
\* Ring.GetReplicationSetForOperation

\* Mutant of maxUnavailableZonesOf: the number of ring zones is not taken into
\* account.
maxUnavailableZonesOfRF(c, zones) == ((c.ReplicationFactor \div 2) + 1) - 1

\* minSuccessZones - 1, with numReplicatedZones = min(len(ringZones), RF).
maxUnavailableZonesOf(c, zones) ==
  LET numReplicatedZones == Min({Len(zones), c.ReplicationFactor})
      minSuccessZones == (numReplicatedZones \div 2) + 1
  IN minSuccessZones - 1

\* Mutant of numRequiredOf: the replication factor is no lower bound.
numRequiredOfSize(c, desc) == Cardinality(DOMAIN desc) - (c.ReplicationFactor \div 2)

\* The number of healthy instances required when zone-awareness is off.
numRequiredOf(c, desc) ==
  LET n == Cardinality(DOMAIN desc)
      numRequired == IF n < c.ReplicationFactor THEN c.ReplicationFactor ELSE n
  IN numRequired - (c.ReplicationFactor \div 2)

ReplicationSetError(e) ==
  [err |-> e, Instances |-> {}, MaxErrors |-> 0, MaxUnavailableZones |-> 0]

\* Mutant of GetReplicationSetForOperation: the ring is empty when its
\* descriptor has no instance.
GetReplicationSetForOperationOfDesc(r, op, storageLastUpdate, t) ==
  IF Cardinality(DOMAIN r.ringDesc) = 0 THEN ReplicationSetError(ErrEmptyRing)
  ELSE
    LET ingesters == {r.ringDesc[i] : i \in DOMAIN r.ringDesc}
        healthyInstances ==
          {x \in ingesters : IsHealthy(x, op, r.cfg.HeartbeatTimeout, storageLastUpdate, t)}
        zoneFailures == {x.Zone : x \in ingesters \ healthyInstances}
    IN IF r.cfg.ZoneAwarenessEnabled
       THEN LET maxUnavailableZones == maxUnavailableZonesOf(r.cfg, r.ringZones)
            IN IF Cardinality(zoneFailures) > maxUnavailableZones
               THEN ReplicationSetError(ErrTooManyUnhealthyInstances)
               ELSE [err |-> ErrNone,
                     Instances |-> {x \in healthyInstances : x.Zone \notin zoneFailures},
                     MaxErrors |-> 0,
                     MaxUnavailableZones |-> maxUnavailableZones - Cardinality(zoneFailures)]
       ELSE LET numRequired == numRequiredOf(r.cfg, r.ringDesc)
            IN IF Cardinality(healthyInstances) < numRequired
               THEN ReplicationSetError(ErrTooManyUnhealthyInstances)
               ELSE [err |-> ErrNone, Instances |-> healthyInstances,
                     MaxErrors |-> Cardinality(healthyInstances) - numRequired,
                     MaxUnavailableZones |-> 0]

\* GetReplicationSetForOperation(op) on ring object r.  The instances are
\* collected by ranging over a map, in no fixed order: Instances is their set.
GetReplicationSetForOperation(r, op, storageLastUpdate, t) ==
  IF Len(r.ringTokens) = 0 THEN ReplicationSetError(ErrEmptyRing)
  ELSE
    LET ingesters == {r.ringDesc[i] : i \in DOMAIN r.ringDesc}
        healthyInstances ==
          {x \in ingesters : IsHealthy(x, op, r.cfg.HeartbeatTimeout, storageLastUpdate, t)}
        zoneFailures == {x.Zone : x \in ingesters \ healthyInstances}
    IN IF r.cfg.ZoneAwarenessEnabled
       THEN LET maxUnavailableZones == maxUnavailableZonesOf(r.cfg, r.ringZones)
            IN IF Cardinality(zoneFailures) > maxUnavailableZones
               THEN ReplicationSetError(ErrTooManyUnhealthyInstances)
               ELSE [err |-> ErrNone,
                     Instances |-> {x \in healthyInstances : x.Zone \notin zoneFailures},
                     MaxErrors |-> 0,
                     MaxUnavailableZones |-> maxUnavailableZones - Cardinality(zoneFailures)]
       ELSE LET numRequired == numRequiredOf(r.cfg, r.ringDesc)
            IN IF Cardinality(healthyInstances) < numRequired
               THEN ReplicationSetError(ErrTooManyUnhealthyInstances)
               ELSE [err |-> ErrNone, Instances |-> healthyInstances,
                     MaxErrors |-> Cardinality(healthyInstances) - numRequired,
                     MaxUnavailableZones |-> 0]

---------------------------------------------------------------------------
\* SpecRepl: descriptors whose instances are ACTIVE with a fresh or an expired
\* heartbeat, or PENDING, or JOINING and not yet holding tokens; the KV store
\* is updated; GetReplicationSetForOperation is called.

ReplInstances(c, i) ==
  LET zone == IF c.ZoneAwarenessEnabled THEN HomeZone(i) ELSE NoZone
  IN {InstanceDesc(i, ACTIVE, zone, TokensOf(i), StartTime, 0),
      InstanceDesc(i, ACTIVE, zone, TokensOf(i), 0, 0),
      InstanceDesc(i, PENDING, zone, TokensOf(i), StartTime, 0),
      InstanceDesc(i, JOINING, zone, <<>>, StartTime, 0)}

ReplOperations == {Write, Read, Reporting}

ReplInit == GetInit

ReplJoin ==
  /\ \E i \in Ids \ DOMAIN ringDesc : \E instance \in ReplInstances(cfg, i) :
       updateRingState(AddIngester(ringDesc, i, instance))
  /\ lastCall' = NoCall
  /\ UNCHANGED <<envVars, bufVars>>

ReplLeave ==
  /\ \E i \in DOMAIN ringDesc : updateRingState(RemoveIngester(ringDesc, i))
  /\ lastCall' = NoCall
  /\ UNCHANGED <<envVars, bufVars>>

\* The KV store reports an update at the current time.
ReplKVUpdate ==
  /\ kvLastUpdate # now
  /\ kvLastUpdate' = now
  /\ lastCall' = NoCall
  /\ UNCHANGED <<cfg, now, shuffleSeed, ringVars, bufVars>>

ReplCall ==
  /\ \E op \in ReplOperations :
       LET res == GetReplicationSetForOperation(ParentRing, op, kvLastUpdate, now)
       IN lastCall' = [name |-> "GetReplicationSetForOperation", op |-> op, err |-> res.err,
                       Instances |-> res.Instances, MaxErrors |-> res.MaxErrors,
                       MaxUnavailableZones |-> res.MaxUnavailableZones]
  /\ UNCHANGED <<ringVars, envVars, bufVars>>

ReplNext == ReplJoin \/ ReplLeave \/ ReplKVUpdate \/ ReplCall

SpecRepl == ReplInit /\ [][ReplNext]_vars

\* The instances of the descriptor that are healthy for op: state accepted by
\* op and heartbeat, or KV update if later, within the timeout.
HealthyFor(op) ==
  {x \in {ringDesc[i] : i \in DOMAIN ringDesc} :
     /\ IsInstanceInStateHealthy(op, x.State)
     /\ now - Max({x.Timestamp, kvLastUpdate}) <= cfg.HeartbeatTimeout}

UnhealthyFor(op) == {ringDesc[i] : i \in DOMAIN ringDesc} \ HealthyFor(op)

\* The zones holding at least one instance unhealthy for op.
FailedZones(op) == {x.Zone : x \in UnhealthyFor(op)}

ReplCalled(zoneAware) ==
  /\ lastCall.name = "GetReplicationSetForOperation"
  /\ cfg.ZoneAwarenessEnabled = zoneAware
  /\ lastCall.err # ErrEmptyRing

\* C6: with zone-awareness, on a ring that has tokens,
\* GetReplicationSetForOperation fails with TooManyUnhealthy exactly when the
\* zones with an unhealthy instance outnumber min(|ringZones|, RF) / 2;
\* otherwise it returns the healthy instances of the zones without unhealthy
\* instance, MaxErrors 0 and the remaining zone allowance, which is not
\* negative.
ReplZoneAware ==
  ReplCalled(TRUE) =>
    LET maxUnavailableZones == Min({Len(ringZones), cfg.ReplicationFactor}) \div 2
        failedZones == FailedZones(lastCall.op)
    IN IF Cardinality(failedZones) > maxUnavailableZones
       THEN lastCall.err = ErrTooManyUnhealthyInstances
       ELSE /\ lastCall.err = ErrNone
            /\ lastCall.Instances = {x \in HealthyFor(lastCall.op) : x.Zone \notin failedZones}
            /\ lastCall.MaxErrors = 0
            /\ lastCall.MaxUnavailableZones = maxUnavailableZones - Cardinality(failedZones)
            /\ lastCall.MaxUnavailableZones >= 0

\* C6 witness: a successful call on a ring of two zones, one of which has an
\* unhealthy instance and a healthy one, which is left out.
ReplZoneAwareWitness ==
  /\ ReplCalled(TRUE)
  /\ lastCall.err = ErrNone
  /\ Len(ringZones) = 2
  /\ lastCall.Instances # {}
  /\ \E x \in HealthyFor(lastCall.op) : x.Zone \in FailedZones(lastCall.op)

\* C7: without zone-awareness, on a ring that has tokens, with
\* required = max(number of instances, RF) - RF / 2,
\* GetReplicationSetForOperation fails with TooManyUnhealthy exactly when
\* fewer than required instances are healthy; otherwise it returns all healthy
\* instances, MaxErrors = |healthy| - required >= 0 and MaxUnavailableZones 0.
\* With 4 instances and RF = 3 it succeeds with MaxErrors 0 when 1 instance is
\* unhealthy and fails when 2 are.
ReplNotZoneAware ==
  ReplCalled(FALSE) =>
    LET n == Cardinality(DOMAIN ringDesc)
        required == Max({n, cfg.ReplicationFactor}) - (cfg.ReplicationFactor \div 2)
        healthy == HealthyFor(lastCall.op)
        unhealthy == UnhealthyFor(lastCall.op)
    IN /\ IF Cardinality(healthy) < required
          THEN lastCall.err = ErrTooManyUnhealthyInstances
          ELSE /\ lastCall.err = ErrNone
               /\ lastCall.Instances = healthy
               /\ lastCall.MaxErrors = Cardinality(healthy) - required
               /\ lastCall.MaxErrors >= 0
               /\ lastCall.MaxUnavailableZones = 0
       /\ (n = 4 /\ cfg.ReplicationFactor = 3 /\ Cardinality(unhealthy) = 1)
            => (lastCall.err = ErrNone /\ lastCall.MaxErrors = 0)
       /\ (n = 4 /\ cfg.ReplicationFactor = 3 /\ Cardinality(unhealthy) = 2)
            => lastCall.err = ErrTooManyUnhealthyInstances

\* C7 witness: 4 instances, RF = 3, one of them unhealthy, and the call
\* succeeded.
ReplNotZoneAwareWitness ==
  /\ ReplCalled(FALSE)
  /\ Cardinality(DOMAIN ringDesc) = 4
  /\ cfg.ReplicationFactor = 3
  /\ Cardinality(UnhealthyFor(lastCall.op)) = 1
  /\ lastCall.err = ErrNone

---------------------------------------------------------------------------
\* Shuffle sharding: Ring.shuffleShard and its callers.

\* The identifier (tenant) whose shards are computed.
Identifier == "tenant"

\* A second identifier.
OtherIdentifier == "other"

Identifiers == {Identifier, OtherIdentifier}

\* What tells the seeds of two identifiers apart.
IdentifierSalt(identifier) == IF identifier = Identifier THEN 0 ELSE 1

\* shardUtil.ShuffleShardSeed(identifier, zone): the seed of the zone's
\* generator, a fixed function of the identifier and the zone.
ShuffleShardSeed(identifier, zone) == shuffleSeed[zone] + IdentifierSalt(identifier)

\* The state of rand.New(rand.NewSource(seed)) after i draws: a linear
\* congruential generator.
RECURSIVE randomState(_, _)
randomState(seed, i) == IF i = 0 THEN seed % 64 ELSE (5 * randomState(seed, i - 1) + 3) % 64

\* The i-th value of random.Uint32() of the generator seeded with seed, in the
\* token space.
randomUint32(seed, i) == (randomState(seed, i) \div 8) % TokenSpace

\* shardUtil.ShuffleShardExpectedInstancesPerZone: ceil(shardSize / numZones).
ShuffleShardExpectedInstancesPerZone(shardSize, numZones) ==
  (shardSize + numZones - 1) \div numZones

\* Mutant of numInstancesPerZoneOf: the remainder is taken for the quotient in
\* the zone-stable variant.
numInstancesPerZoneMod(c, zones, size, zoneStableSharding) ==
  IF c.ZoneAwarenessEnabled
  THEN IF zoneStableSharding THEN size % Len(zones)
       ELSE ShuffleShardExpectedInstancesPerZone(size, Len(zones))
  ELSE size

\* numInstancesPerZone of shuffleShard.
numInstancesPerZoneOf(c, zones, size, zoneStableSharding) ==
  IF c.ZoneAwarenessEnabled
  THEN IF zoneStableSharding THEN size \div Len(zones)
       ELSE ShuffleShardExpectedInstancesPerZone(size, Len(zones))
  ELSE size

\* Mutant of zonesWithExtraInstanceOf: no zone takes an extra instance.
zonesWithExtraInstanceNone(c, zones, size, zoneStableSharding) == 0

\* zonesWithExtraInstance of shuffleShard, before the loop over the zones.
zonesWithExtraInstanceOf(c, zones, size, zoneStableSharding) ==
  IF c.ZoneAwarenessEnabled /\ zoneStableSharding THEN size % Len(zones) ELSE 0

\* Mutant of shardWalk: the walk stops at an instance registered within the
\* lookback period as at any other.
RECURSIVE shardWalkNoLookback(_, _, _, _, _, _, _)
shardWalkNoLookback(r, tokens, p, iterations, lookbackPeriod, lookbackUntil, w) ==
  IF ~(iterations < Len(tokens)) THEN w
  ELSE LET q == p % Len(tokens)
           token == tokens[q + 1]
       IN IF token \notin DOMAIN r.ringInstanceByToken
          THEN [w EXCEPT !.panic = TRUE]
          ELSE LET instanceID == r.ringInstanceByToken[token].InstanceID
                   instance == Ingester(r.ringDesc, instanceID)
                   w1 == [w EXCEPT !.shard = MapPut(@, instanceID, instance)]
               IN IF instanceID \in DOMAIN w.shard
                  THEN shardWalkNoLookback(r, tokens, q + 1, iterations + 1,
                                           lookbackPeriod, lookbackUntil, w)
                  ELSE IF instance.State = READONLY
                  THEN shardWalkNoLookback(r, tokens, q + 1, iterations + 1,
                                           lookbackPeriod, lookbackUntil, w1)
                  ELSE [w1 EXCEPT !.found = TRUE]

\* The walk that selects one more instance of a zone, from 0-based index p
\* with `iterations` tokens visited.  READONLY instances, and with a lookback
\* the instances registered since lookbackUntil, are taken and walked past.
RECURSIVE shardWalk(_, _, _, _, _, _, _)
shardWalk(r, tokens, p, iterations, lookbackPeriod, lookbackUntil, w) ==
  IF ~(iterations < Len(tokens)) THEN w
  ELSE LET q == p % Len(tokens)
           token == tokens[q + 1]
       IN IF token \notin DOMAIN r.ringInstanceByToken
          THEN [w EXCEPT !.panic = TRUE]
          ELSE LET instanceID == r.ringInstanceByToken[token].InstanceID
                   instance == Ingester(r.ringDesc, instanceID)
                   w1 == [w EXCEPT !.shard = MapPut(@, instanceID, instance)]
               IN IF instanceID \in DOMAIN w.shard
                  THEN shardWalk(r, tokens, q + 1, iterations + 1, lookbackPeriod, lookbackUntil, w)
                  ELSE IF \/ (lookbackPeriod > 0 /\ instance.RegisteredTimestamp >= lookbackUntil)
                          \/ instance.State = READONLY
                  THEN shardWalk(r, tokens, q + 1, iterations + 1, lookbackPeriod, lookbackUntil, w1)
                  ELSE [w1 EXCEPT !.found = TRUE]

\* The loop over the instances of one zone, from pick i: each pick starts at
\* the next value of the zone's generator; the zone is left when a walk finds
\* no further instance.
RECURSIVE shardZonePicks(_, _, _, _, _, _, _, _)
shardZonePicks(r, tokens, seed, i, finalInstancesPerZone, lookbackPeriod, lookbackUntil, w) ==
  IF ~(i < finalInstancesPerZone) THEN w
  ELSE LET start == searchToken(tokens, randomUint32(seed, i + 1))
           w1 == shardWalk(r, tokens, start, 0, lookbackPeriod, lookbackUntil,
                           [w EXCEPT !.found = FALSE])
       IN IF w1.panic \/ ~w1.found THEN w1
          ELSE shardZonePicks(r, tokens, seed, i + 1, finalInstancesPerZone,
                              lookbackPeriod, lookbackUntil, w1)

\* The loop over actualZones, from the k-th zone.
RECURSIVE shardZones(_, _, _, _, _, _, _, _)
shardZones(r, identifier, actualZones, k, numInstancesPerZone, lookbackPeriod, lookbackUntil, w) ==
  IF k > Len(actualZones) \/ w.panic THEN w
  ELSE LET zone == actualZones[k]
           tokens == IF r.cfg.ZoneAwarenessEnabled
                     THEN IF zone \in DOMAIN r.ringTokensByZone
                          THEN r.ringTokensByZone[zone] ELSE <<>>
                     ELSE r.ringTokens
           extra == w.zonesWithExtraInstance > 0
           finalInstancesPerZone == IF extra THEN numInstancesPerZone + 1 ELSE numInstancesPerZone
           w0 == [w EXCEPT !.zonesWithExtraInstance = IF extra THEN @ - 1 ELSE @]
       IN shardZones(r, identifier, actualZones, k + 1, numInstancesPerZone,
                     lookbackPeriod, lookbackUntil,
                     shardZonePicks(r, tokens, ShuffleShardSeed(identifier, zone), 0,
                                    finalInstancesPerZone, lookbackPeriod, lookbackUntil, w0))

\* The selection of shuffleShard: the shard map when the loops end, and
\* whether the tokens information was found inconsistent.
shuffleShardSelect(r, identifier, size, lookbackPeriod, t, zoneStableSharding) ==
  shardZones(r, identifier,
             IF r.cfg.ZoneAwarenessEnabled THEN r.ringZones ELSE <<NoZone>>, 1,
             numInstancesPerZoneOf(r.cfg, r.ringZones, size, zoneStableSharding),
             lookbackPeriod, t - lookbackPeriod,
             [shard |-> EmptyDesc, found |-> FALSE, panic |-> FALSE,
              zonesWithExtraInstance |->
                zonesWithExtraInstanceOf(r.cfg, r.ringZones, size, zoneStableSharding)])

\* Mutant of shuffleShard: the subring keeps the tokens of the parent ring.
shuffleShardAllTokens(r, identifier, size, lookbackPeriod, t, zoneStableSharding) ==
  LET shardDesc == shuffleShardSelect(r, identifier, size, lookbackPeriod, t,
                                      zoneStableSharding).shard
      shardTokensByZone == getTokensByZone(shardDesc)
  IN RingObject(r.cfg, shardDesc, r.ringTokens, shardTokensByZone,
                r.ringInstanceByToken, EmptyMap, getZones(shardTokensByZone),
                r.lastTopologyChange)

\* shuffleShard: the read-only ring built on the shard.  It shares the parent's
\* token information and remembers the parent's lastTopologyChange.
shuffleShard(r, identifier, size, lookbackPeriod, t, zoneStableSharding) ==
  LET shardDesc == shuffleShardSelect(r, identifier, size, lookbackPeriod, t,
                                      zoneStableSharding).shard
      shardTokensByZone == getTokensByZone(shardDesc)
  IN RingObject(r.cfg, shardDesc, GetTokens(shardDesc), shardTokensByZone,
                r.ringInstanceByToken, EmptyMap, getZones(shardTokensByZone),
                r.lastTopologyChange)

\* Ring.InstancesCount
InstancesCount(r) == Cardinality(DOMAIN r.ringDesc)

\* Mutant of subringCacheKey: the key does not tell the two variants apart.
subringCacheKeyNoVariant(identifier, size, zoneStableSharding) ==
  [identifier |-> identifier, shardSize |-> size, zoneStableSharding |-> FALSE]

subringCacheKey(identifier, size, zoneStableSharding) ==
  [identifier |-> identifier, shardSize |-> size, zoneStableSharding |-> zoneStableSharding]

\* Mutant of refreshCachedSubring: the cached subring is returned as it is.
keepCachedSubring(cached) == cached

\* The cached subring with the states and heartbeats of its instances
\* refreshed from the parent's descriptor.
refreshCachedSubring(cached) ==
  [cached EXCEPT !.ringDesc =
     [i \in DOMAIN @ |-> [@[i] EXCEPT !.State = Ingester(ringDesc, i).State,
                                      !.Timestamp = Ingester(ringDesc, i).Timestamp]]]

\* getCachedShuffledSubring found an entry.
hasCachedShuffledSubring(key) ==
  ~cfg.SubringCacheDisabled /\ key \in DOMAIN shuffledSubringCache

\* Mutant of shuffleShardWithCache: a size that covers the ring does not
\* return the parent ring.
shuffleShardWithCacheNoExit(identifier, size, zoneStableSharding) ==
  LET key == subringCacheKey(identifier, size, zoneStableSharding)
  IN IF size <= 0
     THEN [ring |-> ParentRing, cache |-> shuffledSubringCache]
     ELSE IF hasCachedShuffledSubring(key)
     THEN LET cached == refreshCachedSubring(shuffledSubringCache[key])
          IN [ring |-> cached, cache |-> MapPut(shuffledSubringCache, key, cached)]
     ELSE LET result == shuffleShard(ParentRing, identifier, size, 0, now, zoneStableSharding)
          IN [ring |-> result,
              cache |-> IF ~cfg.SubringCacheDisabled
                           /\ lastTopologyChange = result.lastTopologyChange
                        THEN MapPut(shuffledSubringCache, key, result)
                        ELSE shuffledSubringCache]

\* shuffleShardWithCache on the parent ring: the ring returned, and the cache
\* as getCachedShuffledSubring or setCachedShuffledSubring leaves it.
shuffleShardWithCache(identifier, size, zoneStableSharding) ==
  LET key == subringCacheKey(identifier, size, zoneStableSharding)
  IN IF size <= 0 \/ InstancesCount(ParentRing) <= size
     THEN [ring |-> ParentRing, cache |-> shuffledSubringCache]
     ELSE IF hasCachedShuffledSubring(key)
     THEN LET cached == refreshCachedSubring(shuffledSubringCache[key])
          IN [ring |-> cached, cache |-> MapPut(shuffledSubringCache, key, cached)]
     ELSE LET result == shuffleShard(ParentRing, identifier, size, 0, now, zoneStableSharding)
          IN [ring |-> result,
              cache |-> IF ~cfg.SubringCacheDisabled
                           /\ lastTopologyChange = result.lastTopologyChange
                        THEN MapPut(shuffledSubringCache, key, result)
                        ELSE shuffledSubringCache]

\* Mutant of ShuffleShardWithLookback: the lookup goes through the cache.
ShuffleShardWithLookbackCached(identifier, size, lookbackPeriod, t) ==
  shuffleShardWithCache(identifier, size, FALSE)

\* ShuffleShardWithLookback on the parent ring: the ring returned, and the
\* cache as the call leaves it.
ShuffleShardWithLookback(identifier, size, lookbackPeriod, t) ==
  IF size <= 0 \/ InstancesCount(ParentRing) <= size
  THEN [ring |-> ParentRing, cache |-> shuffledSubringCache]
  ELSE [ring |-> shuffleShard(ParentRing, identifier, size, lookbackPeriod, t, FALSE),
        cache |-> shuffledSubringCache]

\* Mutant of CleanupShuffleShardCache: only the entries of the default variant
\* are deleted.
CleanupShuffleShardCacheDefault(identifier) ==
  IF cfg.SubringCacheDisabled THEN shuffledSubringCache
  ELSE [k \in {x \in DOMAIN shuffledSubringCache :
                 ~(x.identifier = identifier /\ ~x.zoneStableSharding)} |->
          shuffledSubringCache[k]]

\* CleanupShuffleShardCache(identifier): the cache it leaves.
CleanupShuffleShardCache(identifier) ==
  IF cfg.SubringCacheDisabled THEN shuffledSubringCache
  ELSE [k \in {x \in DOMAIN shuffledSubringCache : x.identifier # identifier} |->
          shuffledSubringCache[k]]

---------------------------------------------------------------------------
\* SpecShuffle: descriptors of ACTIVE and READONLY instances, the shards of one
\* identifier for every size and both variants.  The subring cache is
\* disabled.

\* With zone-awareness an instance runs in its home zone; instance 3 may run in
\* the last zone instead, which leaves the zones unbalanced.
ShuffleZones(c, i) ==
  IF c.ZoneAwarenessEnabled
  THEN {HomeZone(i)} \cup (IF i = 3 THEN {MaxZone} ELSE {})
  ELSE {NoZone}

ShuffleStates == {ACTIVE, READONLY}

ShuffleInstances(c, i) ==
  {InstanceDesc(i, s, z, TokensOf(i), StartTime, 0) : s \in ShuffleStates, z \in ShuffleZones(c, i)}

\* The seeds of the identifier's generators: one for each zone a ring of this
\* configuration can have.
ShuffleSeeds(c) ==
  {f \in [0 .. MaxZone -> 0 .. MaxSeed] :
     \A z \in 0 .. MaxZone : (c.ZoneAwarenessEnabled <=> z = NoZone) => f[z] = 0}

ShuffleInit ==
  /\ cfg \in {Config(MaxRF, za, {}, TRUE) : za \in BOOLEAN}
  /\ InitRing
  /\ InitBuffers
  /\ now = StartTime
  /\ kvLastUpdate = 0
  /\ shuffleSeed \in ShuffleSeeds(cfg)
  /\ lastCall = NoCall

ShuffleJoin ==
  /\ \E i \in Ids \ DOMAIN ringDesc : \E instance \in ShuffleInstances(cfg, i) :
       updateRingState(AddIngester(ringDesc, i, instance))
  /\ lastCall' = NoCall
  /\ UNCHANGED <<envVars, bufVars>>

ShuffleLeave ==
  /\ \E i \in DOMAIN ringDesc : updateRingState(RemoveIngester(ringDesc, i))
  /\ lastCall' = NoCall
  /\ UNCHANGED <<envVars, bufVars>>

\* An instance becomes READONLY, or ACTIVE again.
ShuffleChangeState ==
  /\ \E i \in DOMAIN ringDesc : \E s \in ShuffleStates \ {ringDesc[i].State} :
       updateRingState(AddIngester(ringDesc, i, [ringDesc[i] EXCEPT !.State = s]))
  /\ lastCall' = NoCall
  /\ UNCHANGED <<envVars, bufVars>>

\* A caller calls ShuffleShard(identifier, size), or
\* ShuffleShardWithZoneStability(identifier, size).
ShuffleShardCall ==
  /\ \E size \in 0 .. MaxShardSize : \E zoneStableSharding \in BOOLEAN :
       LET res == shuffleShardWithCache(Identifier, size, zoneStableSharding)
       IN /\ shuffledSubringCache' = res.cache
          /\ lastCall' = [name |-> "ShuffleShard", size |-> size,
                          zoneStableSharding |-> zoneStableSharding,
                          ids |-> DOMAIN res.ring.ringDesc,
                          zones |-> res.ring.ringZones]
  /\ UNCHANGED <<ringDesc, ringTokens, ringTokensByZone, ringInstanceByToken,
                 ringInstanceIdByAddr, ringZones, lastTopologyChange, envVars, bufVars>>

ShuffleNext == ShuffleJoin \/ ShuffleLeave \/ ShuffleChangeState \/ ShuffleShardCall

SpecShuffle == ShuffleInit /\ [][ShuffleNext]_vars

\* The instance ids of the subring that ShuffleShard (or, with
\* zoneStableSharding, ShuffleShardWithZoneStability) returns for the
\* identifier on ring object r.
ShardIds(r, size, zoneStableSharding) ==
  IF size <= 0 \/ InstancesCount(r) <= size THEN DOMAIN r.ringDesc
  ELSE DOMAIN shuffleShard(r, Identifier, size, 0, now, zoneStableSharding).ringDesc

\* size is a multiple of the number of ring zones.
MultipleOfZones(size) == Len(ringZones) > 0 /\ size % Len(ringZones) = 0

\* C8: for a fixed descriptor and identifier and sizes 1 <= s1 < s2, the
\* subring for s1 is a subset of the subring for s2, for
\* ShuffleShardWithZoneStability always and for ShuffleShard when both sizes
\* are multiples of the number of zones; READONLY instances included.
ShardMonotone ==
  (lastCall.name = "ShuffleShard" /\ lastCall.size >= 1) =>
    \A s2 \in (lastCall.size + 1) .. (MaxShardSize + 1) :
      (lastCall.zoneStableSharding \/ (MultipleOfZones(lastCall.size) /\ MultipleOfZones(s2)))
        => lastCall.ids \subseteq ShardIds(ParentRing, s2, lastCall.zoneStableSharding)

\* C8 witness: a zone-stable shard of size 1 over two zones that holds a
\* READONLY instance; the shard of size 2 is larger, and smaller than the ring.
ShardMonotoneWitness ==
  /\ lastCall.name = "ShuffleShard"
  /\ lastCall.zoneStableSharding
  /\ cfg.ZoneAwarenessEnabled
  /\ Len(ringZones) = 2
  /\ lastCall.size = 1
  /\ \E i \in lastCall.ids : ringDesc[i].State = READONLY
  /\ lastCall.ids # ShardIds(ParentRing, 2, TRUE)
  /\ ShardIds(ParentRing, 2, TRUE) # DOMAIN ringDesc

\* C9: for ShuffleShardWithZoneStability on a fixed descriptor and identifier,
\* the subrings for sizes s and s + 1 differ by at most one instance, for
\* every size s >= 1 and whatever the instance states.
ShardSizeStep ==
  (lastCall.name = "ShuffleShard" /\ lastCall.zoneStableSharding /\ lastCall.size >= 1) =>
    LET next == ShardIds(ParentRing, lastCall.size + 1, TRUE)
    IN Cardinality(next \ lastCall.ids) + Cardinality(lastCall.ids \ next) <= 1

\* C10: for a fixed identifier and size, the subring ShuffleShard returns on a
\* descriptor and the one it returns on the descriptor with one instance
\* removed (the first is the second with the instance added) differ by at most
\* one instance removed and at most one instance added.
ShardConsistency ==
  (lastCall.name = "ShuffleShard" /\ ~lastCall.zoneStableSharding /\ lastCall.size >= 1) =>
    \A x \in DOMAIN ringDesc :
      LET less == ShardIds(RingOf(cfg, RemoveIngester(ringDesc, x), now), lastCall.size, FALSE)
      IN /\ Cardinality(lastCall.ids \ less) <= 1
         /\ Cardinality(less \ lastCall.ids) <= 1

---------------------------------------------------------------------------
\* SpecCache: a zone-aware ring with the subring cache enabled.  Instances
\* join ACTIVE in their home zone and leave; one of them changes state and
\* heartbeat; two identifiers ask for shards of small sizes through both
\* variants and through the lookback variant; their caches are cleaned up.

\* The instance whose state and heartbeat change.
CacheFlaky == CHOOSE i \in Ids : HomeZone(i) = MaxZone

CacheStates == {ACTIVE, LEAVING, READONLY}

CacheSizes == 0 .. 1

\* The sizes an identifier asks for: the first one also asks for the next
\* size.
CacheSizesOf(identifier) ==
  IF identifier = Identifier THEN CacheSizes \cup {Max(CacheSizes) + 1} ELSE CacheSizes

\* The instance that registered within the lookback period of the calls.
CacheRecent == 2

\* The lookback period of the calls.
CacheLookback == 1

CacheInstance(i) ==
  InstanceDesc(i, ACTIVE, HomeZone(i), TokensOf(i), StartTime - 1,
               IF i = CacheRecent THEN StartTime - CacheLookback ELSE 0)

CacheInit ==
  /\ cfg = Config(MaxRF, TRUE, {}, FALSE)
  /\ InitRing
  /\ InitBuffers
  /\ now = StartTime
  /\ kvLastUpdate = 0
  /\ shuffleSeed = [z \in 0 .. MaxZone |-> 0]
  /\ lastCall = NoCall

\* What lastCall records of a delivered descriptor: how RingCompare classes
\* it, and the cache as it was before.
CacheUpdate(newDesc) ==
  /\ updateRingState(newDesc)
  /\ lastCall' = [name |-> "update", rc |-> RingCompare(ringDesc, newDesc),
                  cacheBefore |-> shuffledSubringCache]
  /\ UNCHANGED <<envVars, bufVars>>

CacheJoin ==
  \E i \in Ids \ DOMAIN ringDesc : CacheUpdate(AddIngester(ringDesc, i, CacheInstance(i)))

CacheLeave ==
  \E i \in DOMAIN ringDesc : CacheUpdate(RemoveIngester(ringDesc, i))

\* The flaky instance heartbeats and changes state, or is ACTIVE again as it
\* joined.
CacheChangeState ==
  /\ CacheFlaky \in DOMAIN ringDesc
  /\ \E s \in CacheStates \ {ringDesc[CacheFlaky].State} :
       CacheUpdate([ringDesc EXCEPT ![CacheFlaky] =
                      IF s = ACTIVE THEN CacheInstance(CacheFlaky)
                      ELSE [@ EXCEPT !.State = s, !.Timestamp = now]])

\* The descriptor is delivered again, unchanged.
CacheRedeliver ==
  /\ lastCall.name # "update"
  /\ CacheUpdate(ringDesc)

CacheShuffleShard ==
  /\ \E identifier \in Identifiers : \E size \in CacheSizesOf(identifier) : \E zoneStableSharding \in BOOLEAN :
       LET key == subringCacheKey(identifier, size, zoneStableSharding)
           res == shuffleShardWithCache(identifier, size, zoneStableSharding)
       IN /\ shuffledSubringCache' = res.cache
          /\ lastCall' = [name |-> "ShuffleShard", identifier |-> identifier, size |-> size,
                          zoneStableSharding |-> zoneStableSharding, ring |-> res.ring,
                          cacheBefore |-> shuffledSubringCache]
  /\ UNCHANGED <<ringDesc, ringTokens, ringTokensByZone, ringInstanceByToken,
                 ringInstanceIdByAddr, ringZones, lastTopologyChange, envVars, bufVars>>

CacheShuffleShardWithLookback ==
  /\ \E identifier \in Identifiers : \E size \in CacheSizesOf(identifier) :
       LET res == ShuffleShardWithLookback(identifier, size, CacheLookback, now)
       IN /\ shuffledSubringCache' = res.cache
          /\ lastCall' = [name |-> "ShuffleShardWithLookback", identifier |-> identifier,
                          size |-> size, lookbackPeriod |-> CacheLookback, ring |-> res.ring,
                          cacheBefore |-> shuffledSubringCache]
  /\ UNCHANGED <<ringDesc, ringTokens, ringTokensByZone, ringInstanceByToken,
                 ringInstanceIdByAddr, ringZones, lastTopologyChange, envVars, bufVars>>

CacheCleanup ==
  /\ \E identifier \in Identifiers :
       /\ shuffledSubringCache' = CleanupShuffleShardCache(identifier)
       /\ lastCall' = [name |-> "CleanupShuffleShardCache", identifier |-> identifier,
                       cacheBefore |-> shuffledSubringCache, ring |-> ParentRing]
  /\ UNCHANGED <<ringDesc, ringTokens, ringTokensByZone, ringInstanceByToken,
                 ringInstanceIdByAddr, ringZones, lastTopologyChange, envVars, bufVars>>

CacheNext ==
  \/ CacheJoin \/ CacheLeave \/ CacheChangeState \/ CacheRedeliver
  \/ CacheShuffleShard \/ CacheShuffleShardWithLookback \/ CacheCleanup

SpecCache == CacheInit /\ [][CacheNext]_vars

\* The instance ids of the subring computed afresh for identifier on ring
\* object r.
ShardIdsOf(r, identifier, size, zoneStableSharding) ==
  IF size <= 0 \/ InstancesCount(r) <= size THEN DOMAIN r.ringDesc
  ELSE DOMAIN shuffleShard(r, identifier, size, 0, now, zoneStableSharding).ringDesc

\* The last call was a ShuffleShard or ShuffleShardWithZoneStability answered
\* from the cache.
CacheHit ==
  /\ lastCall.name = "ShuffleShard"
  /\ lastCall.size > 0
  /\ InstancesCount(ParentRing) > lastCall.size
  /\ subringCacheKey(lastCall.identifier, lastCall.size, lastCall.zoneStableSharding)
       \in DOMAIN lastCall.cacheBefore

---------------------------------------------------------------------------
\* Zone quotas of a shard, checked under SpecShuffle.

\* The instances of zone z among ids.
InZone(ids, z) == {i \in ids : ringDesc[i].Zone = z}

\* The number of instances a shard of this size takes from the k-th ring zone.
ZoneQuota(size, zoneStableSharding, k) ==
  IF zoneStableSharding
  THEN (size \div Len(ringZones)) + (IF k <= size % Len(ringZones) THEN 1 ELSE 0)
  ELSE (size + Len(ringZones) - 1) \div Len(ringZones)

\* A shard was asked for on a zone-aware ring that has instances, none of
\* them READONLY, and whose zones all hold their quota of instances.
ShardQuotaCase ==
  /\ lastCall.name = "ShuffleShard"
  /\ lastCall.size >= 1
  /\ Len(ringZones) >= 1
  /\ cfg.ZoneAwarenessEnabled
  /\ \A i \in DOMAIN ringDesc : ringDesc[i].State # READONLY
  /\ \A k \in 1 .. Len(ringZones) :
       Cardinality(InZone(DOMAIN ringDesc, ringZones[k]))
         >= ZoneQuota(lastCall.size, lastCall.zoneStableSharding, k)

\* C12: then the subring holds exactly the quota of each zone: ceil(size /
\* |zones|) for ShuffleShard; size / |zones|, plus one for the first
\* size mod |zones| zones, for ShuffleShardWithZoneStability, which makes
\* `size` instances in all.
ShardZoneQuota ==
  ShardQuotaCase =>
    /\ \A k \in 1 .. Len(ringZones) :
         Cardinality(InZone(lastCall.ids, ringZones[k]))
           = ZoneQuota(lastCall.size, lastCall.zoneStableSharding, k)
    /\ lastCall.zoneStableSharding => Cardinality(lastCall.ids) = lastCall.size

\* C12 witness: a zone-stable shard of size 3 over two zones of two instances:
\* two instances of the first zone and one of the second.
ShardZoneQuotaWitness ==
  /\ ShardQuotaCase
  /\ lastCall.zoneStableSharding
  /\ lastCall.size = 3
  /\ Len(ringZones) = 2
  /\ Cardinality(DOMAIN ringDesc) = 4
  /\ Cardinality(InZone(lastCall.ids, ringZones[1])) = 2
  /\ Cardinality(InZone(lastCall.ids, ringZones[2])) = 1

---------------------------------------------------------------------------
\* The early exit of the shuffle sharding functions, checked under SpecCache.

\* The last call was one of the three shuffle sharding functions with a size
\* that is not positive or covers the ring.
ShardExitCase ==
  /\ lastCall.name \in {"ShuffleShard", "ShuffleShardWithLookback"}
  /\ \/ lastCall.size <= 0
     \/ lastCall.size >= Cardinality(DOMAIN ringDesc)

\* C13: with size <= 0 or size >= the number of instances, ShuffleShard,
\* ShuffleShardWithZoneStability and ShuffleShardWithLookback return the
\* parent ring and leave the cache as it was; the cache never holds an entry
\* for such a size.
ShardEarlyExit ==
  /\ ShardExitCase =>
       /\ lastCall.ring = ParentRing
       /\ shuffledSubringCache = lastCall.cacheBefore
  /\ \A k \in DOMAIN shuffledSubringCache :
       0 < k.shardSize /\ k.shardSize < Cardinality(DOMAIN ringDesc)

\* C13 witness: ShuffleShardWithZoneStability with a positive size equal to
\* the number of instances of the ring.
ShardEarlyExitWitness ==
  /\ ShardExitCase
  /\ lastCall.name = "ShuffleShard"
  /\ lastCall.zoneStableSharding
  /\ lastCall.size >= 1
  /\ lastCall.size = Cardinality(DOMAIN ringDesc)

---------------------------------------------------------------------------
\* Coherence of the cached subrings, checked under SpecCache.

\* The entry the last call found in the cache.
CachedBefore ==
  lastCall.cacheBefore[subringCacheKey(lastCall.identifier, lastCall.size,
                                       lastCall.zoneStableSharding)]

\* C16: a subring returned from the cache by ShuffleShard or
\* ShuffleShardWithZoneStability holds, for each of its instances, the state
\* and the heartbeat timestamp of the parent ring's current descriptor, also
\* after an update classified EqualButStatesAndTimestamps.
CacheCoherence ==
  CacheHit =>
    \A i \in DOMAIN lastCall.ring.ringDesc :
      /\ i \in DOMAIN ringDesc
      /\ lastCall.ring.ringDesc[i].State = ringDesc[i].State
      /\ lastCall.ring.ringDesc[i].Timestamp = ringDesc[i].Timestamp

\* C16 witness: the entry found in the cache held another state and another
\* heartbeat timestamp for one of its instances than the parent's descriptor.
CacheCoherenceWitness ==
  /\ CacheHit
  /\ \E i \in DOMAIN CachedBefore.ringDesc :
       /\ CachedBefore.ringDesc[i].State # ringDesc[i].State
       /\ CachedBefore.ringDesc[i].Timestamp # ringDesc[i].Timestamp

---------------------------------------------------------------------------
\* Invalidation of the cache by updates, checked under SpecCache.

\* C17: an update classified Different or EqualButReadOnly leaves the cache
\* empty, so that no subring cached before it can be found afterwards; an
\* update classified Equal or EqualButStatesAndTimestamps leaves every entry
\* in place.
CacheInvalidation ==
  lastCall.name = "update" =>
    /\ lastCall.rc \in {Different, EqualButReadOnly} => shuffledSubringCache = EmptyMap
    /\ lastCall.rc \in {Equal, EqualButStatesAndTimestamps} =>
         shuffledSubringCache = lastCall.cacheBefore

\* C17 witness: an EqualButReadOnly update arrived while the cache held
\* entries.
CacheInvalidationWitness ==
  /\ lastCall.name = "update"
  /\ lastCall.rc = EqualButReadOnly
  /\ lastCall.cacheBefore # EmptyMap
  /\ shuffledSubringCache = EmptyMap

---------------------------------------------------------------------------
\* ShuffleShardWithLookback and the cache, checked under SpecCache.

\* The subring ShuffleShardWithLookback computes on the parent ring.
LookbackFresh(identifier, size, lookbackPeriod, t) ==
  IF size <= 0 \/ Cardinality(DOMAIN ringDesc) <= size THEN ParentRing
  ELSE shuffleShard(ParentRing, identifier, size, lookbackPeriod, t, FALSE)

\* C18: ShuffleShardWithLookback leaves the cache as it was and returns the
\* subring computed from the current descriptor and the given time, whatever
\* the cache holds.
LookbackNoCache ==
  lastCall.name = "ShuffleShardWithLookback" =>
    /\ shuffledSubringCache = lastCall.cacheBefore
    /\ lastCall.ring =
         LookbackFresh(lastCall.identifier, lastCall.size, lastCall.lookbackPeriod, now)

\* C18 witness: the cache held the ShuffleShard subring of the same identifier
\* and size, with other instances than the subring returned.
LookbackNoCacheWitness ==
  /\ lastCall.name = "ShuffleShardWithLookback"
  /\ LET key == subringCacheKey(lastCall.identifier, lastCall.size, FALSE)
     IN /\ key \in DOMAIN lastCall.cacheBefore
        /\ DOMAIN lastCall.cacheBefore[key].ringDesc # DOMAIN lastCall.ring.ringDesc

---------------------------------------------------------------------------
\* CleanupShuffleShardCache, checked under SpecCache.

\* The entries of cache whose key has one of the identifiers ids.
EntriesOf(cache, ids) ==
  [k \in {x \in DOMAIN cache : x.identifier \in ids} |-> cache[k]]

\* C19: CleanupShuffleShardCache(identifier) leaves no entry of that
\* identifier, of any size and of either variant, and leaves the entries of
\* the other identifiers, the descriptor and the views derived from it as they
\* were.
CleanupFrame ==
  lastCall.name = "CleanupShuffleShardCache" =>
    /\ EntriesOf(shuffledSubringCache, {lastCall.identifier}) = EmptyMap
    /\ EntriesOf(shuffledSubringCache, Identifiers \ {lastCall.identifier})
         = EntriesOf(lastCall.cacheBefore, Identifiers \ {lastCall.identifier})
    /\ DOMAIN shuffledSubringCache \subseteq DOMAIN lastCall.cacheBefore
    /\ ParentRing = lastCall.ring

\* C19 witness: the cache held entries of the identifier for two sizes and for
\* both variants, and an entry of another identifier.
CleanupFrameWitness ==
  /\ lastCall.name = "CleanupShuffleShardCache"
  /\ \E k1, k2 \in DOMAIN lastCall.cacheBefore :
       /\ k1.identifier = lastCall.identifier
       /\ k2.identifier = lastCall.identifier
       /\ k1.shardSize # k2.shardSize
       /\ k1.zoneStableSharding # k2.zoneStableSharding
  /\ EntriesOf(shuffledSubringCache, Identifiers \ {lastCall.identifier}) # EmptyMap

---------------------------------------------------------------------------
\* SpecOp: an operation is built from any set of healthy states and any
\* predicate on the states, given as the set of states it holds on.

OpInit ==
  /\ cfg = Config(MaxRF, FALSE, {}, TRUE)
  /\ InitRing
  /\ InitBuffers
  /\ now = StartTime
  /\ kvLastUpdate = 0
  /\ shuffleSeed = [z \in 0 .. MaxZone |-> 0]
  /\ \E healthyStates \in SUBSET InstanceStates : \E extendStates \in SUBSET InstanceStates :
       lastCall = [name |-> "arguments", healthyStates |-> healthyStates,
                   extendStates |-> extendStates]

OpNew ==
  /\ lastCall.name = "arguments"
  /\ lastCall' = [name |-> "NewOp", healthyStates |-> lastCall.healthyStates,
                  extendStates |-> lastCall.extendStates,
                  op |-> NewOp(lastCall.healthyStates, lastCall.extendStates)]
  /\ UNCHANGED <<ringVars, envVars, bufVars>>

OpNext == OpNew

SpecOp == OpInit /\ [][OpNext]_vars

\* C20: op = NewOp(H, f) is healthy for exactly the states of H and extends
\* the replica set on exactly the states f holds on; the lower 16 bits are
\* those of H alone and the upper 16 bits those of f alone.
OpRoundTrip ==
  lastCall.name = "NewOp" =>
    /\ \A s \in InstanceStates :
         /\ IsInstanceInStateHealthy(lastCall.op, s) <=> s \in lastCall.healthyStates
         /\ ShouldExtendReplicaSetOnState(lastCall.op, s) <=> s \in lastCall.extendStates
    /\ lastCall.op % 65536 = NewOp(lastCall.healthyStates, {})
    /\ lastCall.op - (lastCall.op % 65536) = NewOp({}, lastCall.extendStates)
    /\ lastCall.op \div 65536 < 65536

\* C20 witness: an operation whose healthy states and extending states
\* overlap without being equal.
OpRoundTripWitness ==
  /\ lastCall.name = "NewOp"
  /\ lastCall.healthyStates = {ACTIVE, READONLY}
  /\ lastCall.extendStates = {READONLY, LEFT}
  /\ IsInstanceInStateHealthy(lastCall.op, READONLY)
  /\ ShouldExtendReplicaSetOnState(lastCall.op, LEFT)
  /\ ~ShouldExtendReplicaSetOnState(lastCall.op, ACTIVE)

---------------------------------------------------------------------------
\* SpecLookback: instances only join, ACTIVE and registered at the time they
\* join; time passes; one identifier asks for its shard of a fixed size with a
\* lookback.  lastCall also keeps, for each time, the instances that belonged
\* to ShuffleShard(identifier, size) at some moment of that time.  The subring
\* cache is disabled.

LookbackSeeds == {f \in [0 .. MaxZone -> {0, MaxSeed}] : f[NoZone] = 0}

LookbackZone(c, i) == IF c.ZoneAwarenessEnabled THEN HomeZone(i) ELSE NoZone

LookbackInit ==
  /\ cfg \in {Config(MaxRF, za, {}, TRUE) : za \in BOOLEAN}
  /\ InitRing
  /\ InitBuffers
  /\ now = StartTime
  /\ kvLastUpdate = 0
  /\ shuffleSeed \in LookbackSeeds
  /\ \E size \in 1 .. MaxShardSize :
       lastCall = [name |-> "none", size |-> size, seen |-> [t \in {StartTime} |-> {}]]

\* An instance registers and joins.
LookbackJoin ==
  /\ \E i \in Ids \ DOMAIN ringDesc :
       LET instance == InstanceDesc(i, ACTIVE, LookbackZone(cfg, i), TokensOf(i), now, now)
           newDesc == AddIngester(ringDesc, i, instance)
       IN /\ updateRingState(newDesc)
          /\ lastCall' = [name |-> "update", size |-> lastCall.size,
                          seen |-> [lastCall.seen EXCEPT ![now] =
                                      @ \cup ShardIds(RingOf(cfg, newDesc, now),
                                                      lastCall.size, FALSE)]]
  /\ UNCHANGED <<envVars, bufVars>>

\* Time passes.
LookbackTick ==
  /\ now < StartTime + MaxTicks
  /\ now' = now + 1
  /\ lastCall' = [name |-> "tick", size |-> lastCall.size,
                  seen |-> [t \in DOMAIN lastCall.seen \cup {now + 1} |->
                              IF t = now + 1 THEN ShardIds(ParentRing, lastCall.size, FALSE)
                              ELSE lastCall.seen[t]]]
  /\ UNCHANGED <<ringVars, cfg, kvLastUpdate, shuffleSeed, bufVars>>

\* A caller calls ShuffleShardWithLookback(identifier, size, lookbackPeriod, now).
LookbackCall ==
  /\ \E lookbackPeriod \in 1 .. MaxLookback :
       LET res == ShuffleShardWithLookback(Identifier, lastCall.size, lookbackPeriod, now)
       IN /\ shuffledSubringCache' = res.cache
          /\ lastCall' = [name |-> "ShuffleShardWithLookback", size |-> lastCall.size,
                          seen |-> lastCall.seen, lookbackPeriod |-> lookbackPeriod,
                          ids |-> DOMAIN res.ring.ringDesc]
  /\ UNCHANGED <<ringDesc, ringTokens, ringTokensByZone, ringInstanceByToken,
                 ringInstanceIdByAddr, ringZones, lastTopologyChange, envVars, bufVars>>

LookbackNext == LookbackJoin \/ LookbackTick \/ LookbackCall

SpecLookback == LookbackInit /\ [][LookbackNext]_vars

\* The last call was ShuffleShardWithLookback with a size smaller than the
\* ring.
LookbackCalled ==
  /\ lastCall.name = "ShuffleShardWithLookback"
  /\ lastCall.size < Cardinality(DOMAIN ringDesc)

\* Instance i registered within the lookback period of the last call.
Recent(i) ==
  /\ ringDesc[i].RegisteredTimestamp >= now - lastCall.lookbackPeriod
  /\ ringDesc[i].RegisteredTimestamp <= now

\* The zones shuffleShard iterates over.
LookbackZones == IF cfg.ZoneAwarenessEnabled THEN Range(ringZones) ELSE {NoZone}

\* The number of instances ShuffleShardWithLookback looks for in each zone.
LookbackQuota ==
  IF cfg.ZoneAwarenessEnabled
  THEN (lastCall.size + Len(ringZones) - 1) \div Len(ringZones)
  ELSE lastCall.size

\* Zone z holds fewer instances registered before the lookback period than
\* the call looks for in it.
ShortOfOld(z) ==
  Cardinality({i \in InZone(DOMAIN ringDesc, z) : ~Recent(i)}) < LookbackQuota

SeenInPeriod ==
  UNION {lastCall.seen[t] : t \in {u \in DOMAIN lastCall.seen :
                                     u >= now - lastCall.lookbackPeriod /\ u <= now}}

\* C15: while instances only join, each registered when it joins, the subring
\* of ShuffleShardWithLookback(identifier, size, lookbackPeriod, now) contains
\* every instance that belonged to ShuffleShard(identifier, size) at some
\* moment of [now - lookbackPeriod, now], and so the instances of
\* ShuffleShard(identifier, size) on the current descriptor.
LookbackHistory ==
  lastCall.name = "ShuffleShardWithLookback" =>
    /\ SeenInPeriod \subseteq lastCall.ids
    /\ ShardIds(ParentRing, lastCall.size, FALSE) \subseteq lastCall.ids

---------------------------------------------------------------------------
\* AutoForgetFromRing, and SpecForget: the helper is applied, twice, to any
\* descriptor of ACTIVE instances with any heartbeats, at a fixed time.

\* Mutant of AutoForgetFromRing: a heartbeat exactly forgetPeriod old is
\* forgotten too.
AutoForgetFromRingInclusive(desc, forgetPeriod, t) ==
  [i \in {j \in DOMAIN desc : ~(t - desc[j].Timestamp >= forgetPeriod)} |-> desc[i]]

\* AutoForgetFromRing(ringDesc, forgetPeriod) run at time t: the descriptor
\* it leaves.
AutoForgetFromRing(desc, forgetPeriod, t) ==
  [i \in {j \in DOMAIN desc : ~(t - desc[j].Timestamp > forgetPeriod)} |-> desc[i]]

ForgetInit ==
  /\ cfg = Config(MaxRF, FALSE, {}, TRUE)
  /\ InitRing
  /\ InitBuffers
  /\ now \in StartTime .. StartTime + MaxTicks
  /\ kvLastUpdate = 0
  /\ shuffleSeed = [z \in 0 .. MaxZone |-> 0]
  /\ \E ids \in SUBSET Ids : \E ts \in [ids -> 0 .. now] : \E forgetPeriod \in 0 .. MaxTicks :
       LET desc == [i \in ids |-> InstanceDesc(i, ACTIVE, NoZone, TokensOf(i), ts[i], 0)]
       IN lastCall = [name |-> "arguments", forgetPeriod |-> forgetPeriod,
                      input |-> desc, desc |-> desc, calls |-> 0]

ForgetCall ==
  /\ lastCall.calls < 2
  /\ lastCall' = [lastCall EXCEPT !.name = "AutoForgetFromRing",
                                  !.desc = AutoForgetFromRing(@, lastCall.forgetPeriod, now),
                                  !.calls = @ + 1]
  /\ UNCHANGED <<ringVars, envVars, bufVars>>

SpecForget == ForgetInit /\ [][ForgetCall]_vars

\* The instances of the input whose heartbeat is older than now - forgetPeriod.
Forgotten ==
  {i \in DOMAIN lastCall.input : lastCall.input[i].Timestamp < now - lastCall.forgetPeriod}

\* C21: at a fixed time, AutoForgetFromRing removes exactly the instances whose
\* heartbeat is older than now - forgetPeriod and leaves the others as they
\* were; a second application removes nothing more.
ForgetExact ==
  lastCall.name = "AutoForgetFromRing" =>
    /\ DOMAIN lastCall.desc = DOMAIN lastCall.input \ Forgotten
    /\ \A i \in DOMAIN lastCall.desc : lastCall.desc[i] = lastCall.input[i]

\* C21 witness: the helper was applied twice to a descriptor with one instance
\* to forget, one whose heartbeat is exactly forgetPeriod old and a younger
\* one.
ForgetExactWitness ==
  /\ lastCall.name = "AutoForgetFromRing"
  /\ lastCall.calls = 2
  /\ Forgotten # {}
  /\ \E i, j \in DOMAIN lastCall.desc :
       /\ lastCall.desc[i].Timestamp = now - lastCall.forgetPeriod
       /\ lastCall.desc[j].Timestamp > now - lastCall.forgetPeriod

---------------------------------------------------------------------------
\* GetAllHealthy and the lookups of one instance.

\* Mutant of GetAllHealthy: the ring is empty when it has no token.
GetAllHealthyOfTokens(r, op, storageLastUpdate, t) ==
  IF Len(r.ringTokens) = 0 THEN ReplicationSetError(ErrEmptyRing)
  ELSE [err |-> ErrNone,
        Instances |-> {x \in {r.ringDesc[i] : i \in DOMAIN r.ringDesc} :
                         IsHealthy(x, op, r.cfg.HeartbeatTimeout, storageLastUpdate, t)},
        MaxErrors |-> 0, MaxUnavailableZones |-> 0]

\* GetAllHealthy(op) on ring object r.
GetAllHealthy(r, op, storageLastUpdate, t) ==
  IF Cardinality(DOMAIN r.ringDesc) = 0 THEN ReplicationSetError(ErrEmptyRing)
  ELSE [err |-> ErrNone,
        Instances |-> {x \in {r.ringDesc[i] : i \in DOMAIN r.ringDesc} :
                         IsHealthy(x, op, r.cfg.HeartbeatTimeout, storageLastUpdate, t)},
        MaxErrors |-> 0, MaxUnavailableZones |-> 0]

\* GetInstanceState(instanceID) on ring object r.
GetInstanceState(r, instanceID) ==
  IF instanceID \notin DOMAIN r.ringDesc
  THEN [state |-> PENDING, err |-> ErrInstanceNotFound]
  ELSE [state |-> r.ringDesc[instanceID].State, err |-> ErrNone]

\* GetInstanceIdByAddr(addr) on ring object r.
GetInstanceIdByAddr(r, addr) ==
  IF addr \in DOMAIN r.ringInstanceIdByAddr
  THEN [id |-> r.ringInstanceIdByAddr[addr], err |-> ErrNone]
  ELSE [id |-> "notFound", err |-> ErrInstanceNotFound]

\* HasInstance(instanceID) on ring object r.
HasInstance(r, instanceID) == instanceID \in DOMAIN r.ringDesc

---------------------------------------------------------------------------
\* SpecRead: the ring service from its construction: the start-up fetch, which
\* fails or returns nothing or a descriptor; the watch callback, which
\* delivers nothing or a descriptor; the read operations, on the parent ring
\* and on the subring a caller holds.  Zones may be excluded.  lastCall.phase
\* tells how far the service is: "new", "failed" or "running".

ReadExcluded == {{}, {MaxZone}}

\* An instance as the KV store holds it: ACTIVE with a fresh or a stale
\* heartbeat; the last instance may also be JOINING without tokens.
ReadInstances(i) ==
  {InstanceDesc(i, ACTIVE, HomeZone(i), TokensOf(i), StartTime, 0),
   InstanceDesc(i, ACTIVE, HomeZone(i), TokensOf(i), 0, 0)}
  \cup (IF i = MaxInstances
        THEN {InstanceDesc(i, JOINING, HomeZone(i), <<>>, StartTime, 0)} ELSE {})

\* The descriptors the KV store can hold next: one instance joins, changes or
\* leaves.
ReadValues ==
  UNION {{AddIngester(ringDesc, i, x) : x \in ReadInstances(i)} : i \in Ids}
  \cup {RemoveIngester(ringDesc, i) : i \in DOMAIN ringDesc}

ReadInit ==
  /\ cfg \in {Config(MaxRF, za, ex, FALSE) : za \in BOOLEAN, ex \in ReadExcluded}
  /\ InitRing
  /\ InitBuffers
  /\ now = StartTime
  /\ kvLastUpdate = 0
  /\ shuffleSeed = [z \in 0 .. MaxZone |-> 0]
  /\ lastCall = [name |-> "none", phase |-> "new"]

\* Ring.starting: KVClient.Get fails, or returns no value, or a descriptor.
ReadStarting ==
  /\ lastCall.phase = "new"
  /\ \/ /\ lastCall' = [name |-> "starting", phase |-> "failed", outcome |-> "error",
                        before |-> ParentRing, cacheBefore |-> shuffledSubringCache]
        /\ UNCHANGED ringVars
     \/ /\ lastCall' = [name |-> "starting", phase |-> "running", outcome |-> "nil",
                        before |-> ParentRing, cacheBefore |-> shuffledSubringCache]
        /\ UNCHANGED ringVars
     \/ \E value \in ReadValues :
          /\ updateRingState(value)
          /\ lastCall' = [name |-> "starting", phase |-> "running", outcome |-> "value", value |-> value,
                          before |-> ParentRing, cacheBefore |-> shuffledSubringCache]
  /\ UNCHANGED <<envVars, bufVars>>

\* Mutant of ReadWatch: a callback without value installs an empty
\* descriptor.
ReadWatchNilAsEmpty ==
  /\ lastCall.phase = "running"
  /\ \/ /\ updateRingState(EmptyDesc)
        /\ lastCall' = [name |-> "watch", phase |-> "running", outcome |-> "nil",
                        before |-> ParentRing, cacheBefore |-> shuffledSubringCache,
                        continue |-> TRUE]
     \/ \E value \in ReadValues :
          /\ updateRingState(value)
          /\ lastCall' = [name |-> "watch", phase |-> "running", outcome |-> "value", value |-> value,
                          before |-> ParentRing, cacheBefore |-> shuffledSubringCache,
                          continue |-> TRUE]
  /\ UNCHANGED <<envVars, bufVars>>

\* The callback of WatchKey in Ring.loop, with no value or with a descriptor;
\* it returns true.
ReadWatch ==
  /\ lastCall.phase = "running"
  /\ \/ /\ lastCall' = [name |-> "watch", phase |-> "running", outcome |-> "nil",
                        before |-> ParentRing, cacheBefore |-> shuffledSubringCache,
                        continue |-> TRUE]
        /\ UNCHANGED ringVars
     \/ \E value \in ReadValues :
          /\ updateRingState(value)
          /\ lastCall' = [name |-> "watch", phase |-> "running", outcome |-> "value", value |-> value,
                          before |-> ParentRing, cacheBefore |-> shuffledSubringCache,
                          continue |-> TRUE]
  /\ UNCHANGED <<envVars, bufVars>>

ReadGet ==
  /\ \E key \in {0, MaxInstances} : \E op \in {Write, Read} :
       LET res == Get(ParentRing, key, op, <<>>, <<>>, EmptyMap, kvLastUpdate, now)
       IN lastCall' = [name |-> "Get", phase |-> lastCall.phase, op |-> op, err |-> res.err,
                       ids |-> IdsOf(res.Instances), before |-> ParentRing]
  /\ UNCHANGED <<ringVars, envVars, bufVars>>

ReadGetReplicationSetForOperation ==
  /\ \E op \in {Write, Read} :
       LET res == GetReplicationSetForOperation(ParentRing, op, kvLastUpdate, now)
       IN lastCall' = [name |-> "GetReplicationSetForOperation", phase |-> lastCall.phase,
                       op |-> op, err |-> res.err,
                       ids |-> {x.Addr : x \in res.Instances}, before |-> ParentRing]
  /\ UNCHANGED <<ringVars, envVars, bufVars>>

ReadGetAllHealthy ==
  /\ \E op \in {Write, Read} :
       LET res == GetAllHealthy(ParentRing, op, kvLastUpdate, now)
       IN lastCall' = [name |-> "GetAllHealthy", phase |-> lastCall.phase, op |-> op,
                       err |-> res.err, Instances |-> res.Instances,
                       MaxErrors |-> res.MaxErrors, before |-> ParentRing]
  /\ UNCHANGED <<ringVars, envVars, bufVars>>

\* A caller calls ShuffleShard(identifier, size) and holds the subring.
ReadShuffleShard ==
  /\ \E size \in 1 .. 2 :
       LET res == shuffleShardWithCache(Identifier, size, FALSE)
       IN /\ shuffledSubringCache' = res.cache
          /\ lastCall' = [name |-> "ShuffleShard", phase |-> lastCall.phase,
                          size |-> size, ring |-> res.ring]
  /\ UNCHANGED <<ringDesc, ringTokens, ringTokensByZone, ringInstanceByToken,
                 ringInstanceIdByAddr, ringZones, lastTopologyChange, envVars, bufVars>>

\* A caller asks the parent ring, or the subring it holds, for one instance:
\* GetInstanceState, GetInstanceIdByAddr and HasInstance.
ReadLookup ==
  /\ \E r \in {ParentRing} \cup (IF lastCall.name = "ShuffleShard" THEN {lastCall.ring} ELSE {}) :
       \E i \in Ids :
         lastCall' = [name |-> "lookup", phase |-> lastCall.phase, ring |-> r,
                      subring |-> r # ParentRing, instance |-> i,
                      state |-> GetInstanceState(r, i), id |-> GetInstanceIdByAddr(r, i),
                      has |-> HasInstance(r, i)]
  /\ UNCHANGED <<ringVars, envVars, bufVars>>

ReadNext ==
  \/ ReadStarting \/ ReadWatch \/ ReadGet \/ ReadGetReplicationSetForOperation
  \/ ReadGetAllHealthy \/ ReadShuffleShard \/ ReadLookup

SpecRead == ReadInit /\ [][ReadNext]_vars

\* C22: Get and GetReplicationSetForOperation fail with EmptyRing exactly when
\* the ring has no token, which is so before a descriptor is installed and
\* after a start-up fetch without value; they leave the ring as it was.
ReadEmptyRing ==
  lastCall.name \in {"Get", "GetReplicationSetForOperation"} =>
    /\ lastCall.err = ErrEmptyRing <=> Len(ringTokens) = 0
    /\ lastCall.phase = "new" => lastCall.err = ErrEmptyRing
    /\ ParentRing = lastCall.before

\* C22 witness: GetReplicationSetForOperation fails with EmptyRing on a
\* running ring whose only instance has no token.
ReadEmptyRingWitness ==
  /\ lastCall.name = "GetReplicationSetForOperation"
  /\ lastCall.phase = "running"
  /\ lastCall.err = ErrEmptyRing
  /\ DOMAIN ringDesc # {}

\* C23: GetAllHealthy(op) fails with EmptyRing exactly when the descriptor has
\* no instance and with no other error; otherwise it returns exactly the
\* instances healthy for op, possibly none, with MaxErrors = 0.
ReadAllHealthy ==
  lastCall.name = "GetAllHealthy" =>
    /\ lastCall.err \in {ErrNone, ErrEmptyRing}
    /\ lastCall.err = ErrEmptyRing <=> DOMAIN ringDesc = {}
    /\ lastCall.err = ErrNone =>
         /\ lastCall.Instances = HealthyFor(lastCall.op)
         /\ lastCall.MaxErrors = 0

\* C23 witness: none of the instances of a ring with tokens is healthy for
\* the operation, and GetAllHealthy succeeds with no instance.
ReadAllHealthyWitness ==
  /\ lastCall.name = "GetAllHealthy"
  /\ Cardinality(DOMAIN ringDesc) >= 2
  /\ Len(ringTokens) > 0
  /\ lastCall.err = ErrNone
  /\ lastCall.Instances = {}
  /\ lastCall.MaxErrors = 0

\* The instances of the ring object of the last lookup that have the address
\* asked for.
WithAddr == {i \in DOMAIN lastCall.ring.ringDesc : lastCall.ring.ringDesc[i].Addr = lastCall.instance}

\* C24: on the parent ring and on every subring, GetInstanceState(id) and
\* GetInstanceIdByAddr(addr) fail with InstanceNotFound exactly when no
\* instance of the ring's descriptor has that id, respectively that address;
\* GetInstanceIdByAddr returns the id of an instance HasInstance reports
\* present.
ReadLookupFound ==
  lastCall.name = "lookup" =>
    /\ lastCall.state.err = ErrInstanceNotFound <=> lastCall.instance \notin DOMAIN lastCall.ring.ringDesc
    /\ lastCall.id.err = ErrInstanceNotFound <=> WithAddr = {}
    /\ lastCall.has => lastCall.id.id \in WithAddr

\* C25: with excluded zones configured, after the start-up fetch and after
\* every watch callback the descriptor, ringTokens, ringTokensByZone,
\* ringInstanceByToken and ringZones hold no instance, token or zone of an
\* excluded zone, and no read operation returns an instance of such a zone.
ReadExcludedZones ==
  /\ \A i \in DOMAIN ringDesc : ringDesc[i].Zone \notin cfg.ExcludedZones
  /\ Range(ringTokens) = UNION {Range(ringDesc[i].Tokens) : i \in DOMAIN ringDesc}
  /\ DOMAIN ringTokensByZone \cap cfg.ExcludedZones = {}
  /\ \A token \in DOMAIN ringInstanceByToken :
       /\ ringInstanceByToken[token].Zone \notin cfg.ExcludedZones
       /\ ringInstanceByToken[token].InstanceID \in DOMAIN ringDesc
  /\ Range(ringZones) \cap cfg.ExcludedZones = {}
  /\ lastCall.name \in {"Get", "GetReplicationSetForOperation"} =>
       \A i \in lastCall.ids : HomeZone(i) \notin cfg.ExcludedZones
  /\ lastCall.name = "GetAllHealthy" =>
       \A x \in lastCall.Instances : x.Zone \notin cfg.ExcludedZones

\* C25 witness: a watch callback delivered a descriptor with an instance of an
\* excluded zone beside an instance the ring keeps.
ReadExcludedZonesWitness ==
  /\ lastCall.name = "watch"
  /\ lastCall.outcome = "value"
  /\ \E i \in DOMAIN lastCall.value : lastCall.value[i].Zone \in cfg.ExcludedZones
  /\ DOMAIN ringDesc # {}

\* C26: a watch callback without value, and a start-up fetch that fails or
\* returns no value, leave the descriptor, the views, lastTopologyChange and
\* the subring cache as they were; the callback always asks to continue.
ReadNoValue ==
  /\ (lastCall.name \in {"starting", "watch"} /\ lastCall.outcome # "value") =>
       /\ ParentRing = lastCall.before
       /\ shuffledSubringCache = lastCall.cacheBefore
  /\ lastCall.name = "watch" => lastCall.continue

\* C26 witness: a watch callback without value on a ring that has instances
\* and cached subrings.
ReadNoValueWitness ==
  /\ lastCall.name = "watch"
  /\ lastCall.outcome = "nil"
  /\ DOMAIN ringDesc # {}
  /\ shuffledSubringCache # EmptyMap

---------------------------------------------------------------------------
\* SpecRace: the watch callback delivers descriptors while one caller is
\* inside a read.  Get, GetAllHealthy and GetReplicationSetForOperation hold
\* the read lock from their first read to their last, so each is one step.
\* shuffleShardWithCache and ShuffleShardWithLookback take the lock once per
\* step: InstancesCount, getCachedShuffledSubring, shuffleShard and
\* setCachedShuffledSubring; the callback can install a descriptor between two
\* of them.  lastCall holds the call in flight: its arguments, the step it is
\* at, the ring each step observed, and the classes of the updates delivered
\* since the shard was computed.

\* Mutant of setCachedShuffledSubring: the subring is inserted whatever its
\* lastTopologyChange.
setCachedShuffledSubringUnchecked(key, subring) ==
  IF cfg.SubringCacheDisabled THEN shuffledSubringCache
  ELSE MapPut(shuffledSubringCache, key, subring)

\* setCachedShuffledSubring: the cache after the call.
setCachedShuffledSubring(key, subring) ==
  IF cfg.SubringCacheDisabled THEN shuffledSubringCache
  ELSE IF lastTopologyChange = subring.lastTopologyChange
  THEN MapPut(shuffledSubringCache, key, subring)
  ELSE shuffledSubringCache

RaceInstance(i) == InstanceDesc(i, ACTIVE, HomeZone(i), TokensOf(i), StartTime, 0)

\* The descriptors the callback can be handed: an instance joins or leaves,
\* the flaky instance changes state to or from READONLY, an instance
\* heartbeats, or the descriptor comes again as it is.
RaceValues ==
  {AddIngester(ringDesc, i, RaceInstance(i)) : i \in Ids \ DOMAIN ringDesc}
    \cup {RemoveIngester(ringDesc, i) : i \in DOMAIN ringDesc}
    \cup {[ringDesc EXCEPT ![i].State = IF @ = ACTIVE THEN READONLY ELSE ACTIVE] :
            i \in DOMAIN ringDesc \cap {CacheFlaky}}
    \cup {[ringDesc EXCEPT ![i].Timestamp = now] : i \in DOMAIN ringDesc \cap {MaxInstances}}
    \cup {ringDesc}

RaceIdle == [name |-> "none", phase |-> "done"]

RaceInit ==
  /\ cfg \in {Config(MaxRF, za, {}, FALSE) : za \in BOOLEAN}
  /\ InitRing
  /\ InitBuffers
  /\ now = StartTime
  /\ kvLastUpdate = 0
  /\ shuffleSeed = [z \in 0 .. MaxZone |-> 0]
  /\ lastCall = RaceIdle

\* The callback of loop installs a descriptor.  The clock has moved on when
\* the next descriptor arrives: two calls of updateRingState never read the
\* same time.
RaceUpdate ==
  /\ now - StartTime <= MaxTicks
  /\ \E newDesc \in RaceValues :
       /\ updateRingState(newDesc)
       /\ lastCall' = IF lastCall.phase = "store"
                      THEN [lastCall EXCEPT !.since = @ \cup {RingCompare(ringDesc, newDesc)}]
                      ELSE lastCall
  /\ now' = now + 1
  /\ UNCHANGED <<cfg, kvLastUpdate, shuffleSeed, bufVars>>

\* The first step of ShuffleShard, ShuffleShardWithZoneStability and
\* ShuffleShardWithLookback: the parent ring is returned when the size is not
\* smaller than InstancesCount.
RaceCheck ==
  /\ lastCall.phase = "done"
  /\ \E name \in {"ShuffleShard", "ShuffleShardWithZoneStability", "ShuffleShardWithLookback"} :
     \E size \in 1 .. 2 :
       lastCall' = [name |-> name, identifier |-> Identifier, size |-> size,
                    zoneStableSharding |-> (name = "ShuffleShardWithZoneStability"),
                    seen |-> <<ParentRing>>, since |-> {}, hit |-> FALSE,
                    computed |-> FALSE, stored |-> FALSE, ring |-> ParentRing,
                    phase |-> IF InstancesCount(ParentRing) <= size THEN "done"
                              ELSE IF name = "ShuffleShardWithLookback" THEN "compute"
                              ELSE "lookup"]
  /\ UNCHANGED <<ringVars, envVars, bufVars>>

\* getCachedShuffledSubring: an entry is refreshed and returned.
RaceLookup ==
  /\ lastCall.phase = "lookup"
  /\ LET key == subringCacheKey(lastCall.identifier, lastCall.size, lastCall.zoneStableSharding)
     IN IF hasCachedShuffledSubring(key)
        THEN LET cached == refreshCachedSubring(shuffledSubringCache[key])
             IN /\ shuffledSubringCache' = MapPut(shuffledSubringCache, key, cached)
                /\ lastCall' = [lastCall EXCEPT !.seen = Append(@, ParentRing), !.hit = TRUE,
                                                !.ring = cached, !.phase = "done"]
        ELSE /\ shuffledSubringCache' = shuffledSubringCache
             /\ lastCall' = [lastCall EXCEPT !.seen = Append(@, ParentRing),
                                             !.phase = "compute"]
  /\ UNCHANGED <<ringDesc, ringTokens, ringTokensByZone, ringInstanceByToken,
                 ringInstanceIdByAddr, ringZones, lastTopologyChange, envVars, bufVars>>

\* The lookback period of the calls of ShuffleShardWithLookback.
RaceLookback(name) == IF name = "ShuffleShardWithLookback" THEN MaxLookback ELSE 0

\* Mutant of RaceCompute: the shard is computed from the ring the first step
\* observed.
RaceComputeOfChecked ==
  /\ lastCall.phase = "compute"
  /\ lastCall' = [lastCall EXCEPT
       !.seen = Append(@, ParentRing), !.computed = TRUE,
       !.ring = shuffleShard(lastCall.seen[1], lastCall.identifier, lastCall.size,
                             RaceLookback(lastCall.name), now, lastCall.zoneStableSharding),
       !.phase = IF lastCall.name = "ShuffleShardWithLookback" THEN "done" ELSE "store"]
  /\ UNCHANGED <<ringVars, envVars, bufVars>>

\* shuffleShard, under the read lock.
RaceCompute ==
  /\ lastCall.phase = "compute"
  /\ lastCall' = [lastCall EXCEPT
       !.seen = Append(@, ParentRing), !.computed = TRUE,
       !.ring = shuffleShard(ParentRing, lastCall.identifier, lastCall.size,
                             RaceLookback(lastCall.name), now, lastCall.zoneStableSharding),
       !.phase = IF lastCall.name = "ShuffleShardWithLookback" THEN "done" ELSE "store"]
  /\ UNCHANGED <<ringVars, envVars, bufVars>>

\* setCachedShuffledSubring, under the write lock.
RaceStore ==
  /\ lastCall.phase = "store"
  /\ LET key == subringCacheKey(lastCall.identifier, lastCall.size, lastCall.zoneStableSharding)
     IN /\ shuffledSubringCache' = setCachedShuffledSubring(key, lastCall.ring)
        /\ lastCall' = [lastCall EXCEPT !.stored = (key \in DOMAIN shuffledSubringCache'),
                                        !.phase = "done"]
  /\ UNCHANGED <<ringDesc, ringTokens, ringTokensByZone, ringInstanceByToken,
                 ringInstanceIdByAddr, ringZones, lastTopologyChange, envVars, bufVars>>

\* The ring a caller holds: the one its last shuffle-shard call returned.
RaceHeld == IF "ring" \in DOMAIN lastCall THEN {lastCall.ring} ELSE {}

\* Get, GetAllHealthy or GetReplicationSetForOperation, each under the read
\* lock for the whole call, on the parent ring or on the ring the caller
\* holds.
RaceRead ==
  /\ lastCall.phase = "done"
  /\ \E name \in {"Get", "GetAllHealthy", "GetReplicationSetForOperation"} :
     \E r \in {ParentRing} \cup RaceHeld :
       LET res == IF name = "Get"
                  THEN Get(r, 0, Read, <<>>, <<>>, EmptyMap, kvLastUpdate, now)
                  ELSE IF name = "GetAllHealthy"
                  THEN GetAllHealthy(r, Read, kvLastUpdate, now)
                  ELSE GetReplicationSetForOperation(r, Read, kvLastUpdate, now)
       IN lastCall' = [name |-> name, phase |-> "done", seen |-> <<r>>, ring |-> r,
                       err |-> res.err,
                       selected |-> IF name = "Get" THEN res.selected ELSE <<>>,
                       since |-> {}, hit |-> FALSE, computed |-> FALSE,
                       stored |-> FALSE]
  /\ UNCHANGED <<ringVars, envVars, bufVars>>

RaceNext == RaceUpdate \/ RaceCheck \/ RaceLookup \/ RaceCompute \/ RaceStore \/ RaceRead

SpecRace == RaceInit /\ [][RaceNext]_vars

\* A call of the shuffle-shard family has returned.
RaceReturned ==
  /\ lastCall.phase = "done"
  /\ lastCall.name \in {"ShuffleShard", "ShuffleShardWithZoneStability", "ShuffleShardWithLookback"}

\* C28: a subring computed before a topology-altering update is not inserted
\* in the cache by the store step that follows the update: when an update of
\* class Different was installed between the computation and the store, the
\* call returns with the cache holding no entry under its key.
RaceStoreGuard ==
  (RaceReturned /\ lastCall.computed /\ Different \in lastCall.since) => ~lastCall.stored

\* C28 witness: a call computed its subring, a topology-altering update was
\* installed, and the store step left the cache without the entry.
RaceStoreGuardWitness ==
  /\ RaceReturned
  /\ lastCall.computed
  /\ Different \in lastCall.since
  /\ ~lastCall.stored
  /\ InstancesCount(ParentRing) > lastCall.size

\* C29: a subring served from the cache holds the instances that shuffle
\* sharding computes afresh, for the same identifier, size and variant, from
\* the ring in force at the lookup.
RaceCacheSound ==
  (RaceReturned /\ lastCall.hit) =>
    LET at == lastCall.seen[Len(lastCall.seen)]
    IN DOMAIN lastCall.ring.ringDesc =
         DOMAIN shuffleShard(at, lastCall.identifier, lastCall.size, 0, now,
                             lastCall.zoneStableSharding).ringDesc

\* C30 as stated: every step of one call observes the same ring.
RaceOneSnapshot ==
  lastCall.name # "none" =>
    \A i, j \in DOMAIN lastCall.seen : lastCall.seen[i] = lastCall.seen[j]

\* C30, amended: Get, GetAllHealthy and GetReplicationSetForOperation observe
\* one ring; a call of the shuffle-shard family observes one ring in each of
\* its steps, and the subring it computes is made of the ring in force at the
\* computation alone: its instances are that ring's, as that ring describes
\* them, and it carries that ring's token owners and lastTopologyChange.
RaceStepSnapshot ==
  /\ lastCall.name \in {"Get", "GetAllHealthy", "GetReplicationSetForOperation"} =>
       Len(lastCall.seen) = 1
  /\ (lastCall.name # "none" /\ lastCall.computed) =>
       LET at == lastCall.seen[Len(lastCall.seen)]
       IN /\ \A i \in DOMAIN lastCall.ring.ringDesc :
               i \in DOMAIN at.ringDesc /\ lastCall.ring.ringDesc[i] = at.ringDesc[i]
          /\ lastCall.ring.ringInstanceByToken = at.ringInstanceByToken
          /\ lastCall.ring.lastTopologyChange = at.lastTopologyChange

\* C30 witness: a call returns a subring computed from a ring that is not the
\* one its early-exit check observed.
RaceStepSnapshotWitness ==
  /\ RaceReturned
  /\ lastCall.computed
  /\ lastCall.seen[1].ringDesc # lastCall.seen[Len(lastCall.seen)].ringDesc
  /\ DOMAIN lastCall.seen[1].ringDesc # DOMAIN lastCall.seen[Len(lastCall.seen)].ringDesc

\* The class of the update a step of the callback installs: the clock moves
\* with every delivery and with nothing else.
RaceInstalled == RingCompare(ringDesc, ringDesc')

\* C32: an update of class Equal, EqualButStatesAndTimestamps or
\* EqualButReadOnly leaves ringTokens, ringTokensByZone, ringInstanceByToken,
\* ringInstanceIdByAddr, ringZones and lastTopologyChange as they were, and
\* the cache too unless the class is EqualButReadOnly, which empties it;
\* lastTopologyChange changes only in an update of class Different.
RaceUpdateFrame ==
  [][/\ (now' # now /\ RaceInstalled # Different) =>
          /\ UNCHANGED <<ringTokens, ringTokensByZone, ringInstanceByToken,
                         ringInstanceIdByAddr, ringZones, lastTopologyChange>>
          /\ shuffledSubringCache' =
               IF RaceInstalled = EqualButReadOnly THEN EmptyMap ELSE shuffledSubringCache
     /\ lastTopologyChange' # lastTopologyChange =>
          (now' # now /\ RaceInstalled = Different)]_vars

\* C32 witness: between the computation of a subring and its store, updates
\* of the three classes that keep the topology were installed and no other,
\* and lastTopologyChange is the one the subring carries.
RaceUpdateFrameWitness ==
  /\ lastCall.phase = "store"
  /\ lastCall.since # {}
  /\ Different \notin lastCall.since
  /\ lastCall.ring.lastTopologyChange = lastTopologyChange
  /\ lastCall.seen[Len(lastCall.seen)].ringDesc # ringDesc

\* The ring objects there are: the parent ring, the cached subrings, and the
\* ring a caller holds from its last call, be it a subring computed or served
\* from the cache, before or after later updates of the parent.
RaceRings ==
  {ParentRing} \cup {shuffledSubringCache[k] : k \in DOMAIN shuffledSubringCache} \cup RaceHeld

\* C33: in every ring object each token of ringTokens is a key of
\* ringInstanceByToken and maps to an instance of the ring's descriptor; Get
\* on it does not fail with InconsistentTokensInfo and selects no zero-valued
\* instance, and shuffle sharding on it does not abort.
RaceTokensInfo ==
  \A r \in RaceRings :
    /\ \A token \in Range(r.ringTokens) :
         /\ token \in DOMAIN r.ringInstanceByToken
         /\ r.ringInstanceByToken[token].InstanceID \in DOMAIN r.ringDesc
    /\ \A key \in {0, MaxInstances}, op \in {Write, Read} :
         LET res == Get(r, key, op, <<>>, <<>>, EmptyMap, kvLastUpdate, now)
         IN /\ res.err # ErrInconsistentTokensInfo
            /\ ZeroInstance \notin Range(res.selected)
    /\ \A size \in 1 .. 2 :
         ~shuffleShardSelect(r, Identifier, size, 0, now, FALSE).panic
    /\ (lastCall.name = "Get" /\ lastCall.ring = r) =>
         /\ lastCall.err # ErrInconsistentTokensInfo
         /\ ZeroInstance \notin Range(lastCall.selected)

\* C33 witness: Get is called on a subring whose caller held it while the
\* parent ring lost one of the subring's instances, and selects instances.
RaceTokensInfoWitness ==
  /\ lastCall.name = "Get"
  /\ lastCall.ring # ParentRing
  /\ lastCall.ring.ringInstanceByToken # ringInstanceByToken
  /\ DOMAIN lastCall.ring.ringDesc \ DOMAIN ringDesc # {}
  /\ Len(lastCall.selected) > 0

---------------------------------------------------------------------------
\* SpecLock: the read-write mutex.  The watch callback takes the write side,
\* installs the descriptor and releases; one reader is inside an operation of
\* the read interface, which takes the read side at its first line and
\* releases it on return, except GetInstanceIdByAddr, which takes no lock.
\* lastCall holds the position of the callback (idle, ready with a descriptor,
\* locked, written) and of the reader (idle or reading, and whether it holds
\* the read side).

LockReads ==
  {"Get", "GetAllHealthy", "GetReplicationSetForOperation", "shuffleShard",
   "getCachedShuffledSubring", "GetInstanceState", "HasInstance", "GetInstanceIdByAddr"}

\* The operations that take the read side of the mutex.
LockTaken(op) == op # "GetInstanceIdByAddr"

LockIdleReader == [pc |-> "idle", op |-> "none", holds |-> FALSE]

\* The write side is held.
LockWriteHeld == lastCall.writer \in {"locked", "written"}

\* The read side is held.
LockReadHeld == lastCall.reader.pc = "reading" /\ lastCall.reader.holds

LockInit ==
  /\ cfg = Config(MaxRF, FALSE, {}, FALSE)
  /\ InitRing
  /\ InitBuffers
  /\ now = StartTime
  /\ kvLastUpdate = 0
  /\ shuffleSeed = [z \in 0 .. MaxZone |-> 0]
  /\ lastCall = [name |-> "mutex", writer |-> "idle", pending |-> EmptyDesc,
                 reader |-> LockIdleReader]

\* WatchKey calls the callback with a descriptor.
LockDeliver ==
  /\ lastCall.writer = "idle"
  /\ now - StartTime <= MaxTicks
  /\ \E newDesc \in RaceValues :
       lastCall' = [lastCall EXCEPT !.writer = "ready", !.pending = newDesc]
  /\ UNCHANGED <<ringVars, envVars, bufVars>>

\* r.mtx.Lock() in updateRingState: granted when no reader holds the read
\* side.
LockAcquire ==
  /\ lastCall.writer = "ready"
  /\ ~LockReadHeld
  /\ lastCall' = [lastCall EXCEPT !.writer = "locked"]
  /\ UNCHANGED <<ringVars, envVars, bufVars>>

\* The assignments of updateRingState, under the write side.
LockInstall ==
  /\ lastCall.writer = "locked"
  /\ updateRingState(lastCall.pending)
  /\ now' = now + 1
  /\ lastCall' = [lastCall EXCEPT !.writer = "written"]
  /\ UNCHANGED <<cfg, kvLastUpdate, shuffleSeed, bufVars>>

\* r.mtx.Unlock()
LockRelease ==
  /\ lastCall.writer = "written"
  /\ lastCall' = [lastCall EXCEPT !.writer = "idle", !.pending = EmptyDesc]
  /\ UNCHANGED <<ringVars, envVars, bufVars>>

\* The reader enters an operation: r.mtx.RLock() is granted when the write
\* side is not held; GetInstanceIdByAddr starts reading at once.
LockReadBegin ==
  /\ lastCall.reader.pc = "idle"
  /\ \E op \in LockReads : \E i \in {CacheFlaky, MaxInstances} :
       /\ LockTaken(op) => ~LockWriteHeld
       /\ lastCall' = [lastCall EXCEPT !.reader =
            [pc |-> "reading", op |-> op, holds |-> LockTaken(op), instance |-> i,
             began |-> ringInstanceIdByAddr]]
  /\ UNCHANGED <<ringVars, envVars, bufVars>>

\* What the reader's operation returns: the lookups return their answer, the
\* others their error.  A read made without the lock gets the map the field
\* held when the operation began or the one it holds now.
LockResult(op, i, view) ==
  LET r == [ParentRing EXCEPT !.ringInstanceIdByAddr = view]
  IN IF op = "GetInstanceIdByAddr" THEN GetInstanceIdByAddr(r, i)
     ELSE IF op = "GetInstanceState" THEN GetInstanceState(r, i)
     ELSE IF op = "HasInstance" THEN [has |-> HasInstance(r, i)]
     ELSE IF op = "Get"
     THEN [err |-> Get(r, i, Read, <<>>, <<>>, EmptyMap, kvLastUpdate, now).err]
     ELSE IF op = "GetAllHealthy"
     THEN [err |-> GetAllHealthy(r, Read, kvLastUpdate, now).err]
     ELSE IF op = "GetReplicationSetForOperation"
     THEN [err |-> GetReplicationSetForOperation(r, Read, kvLastUpdate, now).err]
     ELSE IF op = "shuffleShard"
     THEN [ids |-> DOMAIN shuffleShard(r, Identifier, 1, 0, now, FALSE).ringDesc]
     ELSE [found |-> hasCachedShuffledSubring(subringCacheKey(Identifier, 1, FALSE))]

\* The reader returns, releasing the read side if it holds it.
LockReadEnd ==
  /\ lastCall.reader.pc = "reading"
  /\ \E view \in (IF lastCall.reader.holds THEN {ringInstanceIdByAddr}
                  ELSE {lastCall.reader.began, ringInstanceIdByAddr}) :
       lastCall' = [lastCall EXCEPT !.reader =
         [pc |-> "idle", op |-> lastCall.reader.op, holds |-> FALSE,
          instance |-> lastCall.reader.instance,
          result |-> LockResult(lastCall.reader.op, lastCall.reader.instance, view)]]
  /\ UNCHANGED <<ringVars, envVars, bufVars>>

LockNext ==
  \/ LockDeliver \/ LockAcquire \/ LockInstall \/ LockRelease
  \/ LockReadBegin \/ LockReadEnd

SpecLock == LockInit /\ [][LockNext]_vars

\* C31: an operation of the read interface reads the descriptor, a view or the
\* cache only while it holds the mutex, and no reader is reading while the
\* watch callback holds the write side.
LockDiscipline ==
  lastCall.reader.pc = "reading" =>
    /\ lastCall.reader.holds
    /\ ~LockWriteHeld

====
